---- MODULE Spec2Model ----
(***************************************************************************)
(* Verification model of the HPACK dynamic table of the HTTP/2 inspector   *)
(* (src/service_inspectors/http2_inspect/http2_hpack_dynamic_table.cc) and *)
(* of the fast-pattern compiler (src/detection/fp_create.cc): the          *)
(* detection option trees, the per-rule adder of a port group, the final   *)
(* pattern of a fast pattern, and the build of all port and service groups *)
(* with their rule maps and the compilation of their MPSEs.  Each part has *)
(* its own specification: SpecHpack, SpecDot, SpecGroup, SpecFinalPattern, *)
(* SpecBuild, and SpecFixup for fixup_tree on finalized trees.             *)
(*                                                                         *)
(* The table is a circular array of owning entry pointers.  Every method   *)
(* of HpackDynamicTable is an operator over a table record (the object's   *)
(* fields); every action applies one method to the current object and      *)
(* records the call and its result in the observation variable `call`.     *)
(***************************************************************************)
EXTENDS Integers, Sequences, FiniteSets, TLC

(***************************************************************************)
(* Bounds and program constants                                            *)
(***************************************************************************)

\* Number of slots of circular_buf (512 in the program, scaled down; a power
\* of two like the program's value, so that it divides the word modulus).
ARRAY_CAPACITY == 4

\* Granularity of the memory reported to the flow (scaled down).
TABLE_MEMORY_TRACKING_INCREMENT == 50

\* Width in bits of the unsigned words of the model (uint32_t in the program,
\* scaled down; all arithmetic on them is taken modulo 2^UINT_BITS).
UINT_BITS == 16

\* Number of entries that may be stored in one behaviour.
MaxStored == 5

\* Per-entry overhead of RFC 7541 section 4.1.
RFC_ENTRY_OVERHEAD == 32

\* Highest index of the static table (RFC 7541 appendix A).
STATIC_MAX_INDEX == 61

\* sizeof(HpackTableEntry*)
POINTER_SIZE == 8

UINT_MODULUS == 2 ^ UINT_BITS

\* Unsigned wrap-around of an arithmetic result.
U32(x) == x % UINT_MODULUS

\* The largest table size offered: room for ARRAY_CAPACITY entries of the
\* short names and values below.
MaxTableSize == ARRAY_CAPACITY * (RFC_ENTRY_OVERHEAD + 3)

\* A header value too long for any offered table size.
LongValue == [i \in 1 .. MaxTableSize |-> 9]

\* Header names and header values offered to add_entry.
NameChoices == { <<7>>, <<7, 9>> }

ValueChoices == { <<>>, <<9>>, LongValue }

\* Table sizes offered to update_size and to the initial max_size.
SizeChoices == { 0, 34, 70, 105, MaxTableSize }

\* Indices offered to get_entry: below, at and above the static table limit,
\* over the whole dynamic range, one past it, and the largest word.
IndexChoices ==
    { 0, STATIC_MAX_INDEX - 1, UINT_MODULUS - 1 }
        \cup (STATIC_MAX_INDEX .. (STATIC_MAX_INDEX + ARRAY_CAPACITY + 1))

Slots == 0 .. (ARRAY_CAPACITY - 1)

\* The null pointer.  Allocated entries carry an allocation number id >= 1,
\* which is the identity of the heap object.
NULL == [id |-> 0, name |-> <<>>, value |-> <<>>]

NoSlot == ARRAY_CAPACITY

(***************************************************************************)
(* State                                                                   *)
(***************************************************************************)
VARIABLES
    start,                   \* HpackDynamicTable::start
    num_entries,             \* HpackDynamicTable::num_entries
    rfc_table_size,          \* HpackDynamicTable::rfc_table_size
    max_size,                \* HpackDynamicTable::max_size
    table_memory_allocated,  \* HpackDynamicTable::table_memory_allocated
    circular_buf,            \* HpackDynamicTable::circular_buf
    allocations,             \* total passed to session_data->update_allocations
    deallocations,           \* total passed to session_data->update_deallocations
    freed,                   \* per allocation number, how often it was deleted
    destroyed,               \* the destructor has run
    next_id,                 \* allocation number of the next new HpackTableEntry
    size_limit,              \* argument of the latest update_size, -1 if none
    call                     \* the latest call: operation, arguments, result

hpack_vars ==
    << start, num_entries, rfc_table_size, max_size, table_memory_allocated,
       circular_buf, allocations, deallocations, freed, destroyed,
       next_id, size_limit, call >>

\* The detection option trees of one configuration (fp_create.cc).
VARIABLES
    nodes,          \* the detection_option_tree_node_t objects, by allocation number
    roots,          \* *existing_tree of every pattern state: its root, or null
    detection_option_tree_hash_table,   \* sc->detection_option_tree_hash_table
    freed_nodes,    \* the nodes given to free_detection_option_tree
    finalized,      \* the trees whose last create_tree call (null id) was made
    inserted,       \* per tree, the rules handed to otn_create_tree, in order
    last_insert     \* what the latest otn_create_tree call did

dot_vars ==
    << nodes, roots, detection_option_tree_hash_table, freed_nodes, finalized,
       inserted, last_insert >>

VARIABLES
    offload_search_api,  \* fp->get_offload_search_api(): "none", or an api
    mpsegrp,             \* pg->mpsegrp[pm_type]
    nfp_head,            \* pg->nfp_head, the no-fast-pattern rule list
    nfp_rule_count,      \* pg->nfp_rule_count
    rule_count,          \* pg->rule_count
    nfp_tree,            \* pg->nfp_tree
    mpse_count,          \* static mpse_count
    offload_mpse_count,  \* static offload_mpse_count
    parse_errors,        \* the messages of the ParseError calls of the build
    num_patterns_truncated,  \* fp->num_patterns_truncated
    otn_meta,            \* per rule: longestPatternLen and the fp-only entries
    po_group,            \* po->group: "unset", "null" or "pg"
    handed,              \* the rules of the port object's rule_hash walked so far
    last_add,            \* the latest fpAddPortGroupRule call and its result
    create_failed        \* the rules whose call ended where no MPSE could be made

pg_vars ==
    << offload_search_api, mpsegrp, nfp_head, nfp_rule_count, rule_count,
       nfp_tree, mpse_count, offload_mpse_count, parse_errors,
       num_patterns_truncated, otn_meta, po_group, handed, last_add,
       create_failed >>

\* One call of fpGetFinalPattern.
VARIABLES
    final_pmd,      \* the PatternMatchData handed to fpGetFinalPattern
    final_max,      \* fp->max_pattern_len at the call
    final_ret       \* ret_pattern, ret_bytes and the value returned

fin_vars == << final_pmd, final_max, final_ret >>

\* One run of fpCreateFastPacketDetection over the port tables and the
\* service rule maps of a configuration.
VARIABLES
    split_any_any,   \* fp->get_split_any_any()
    create_offload_mpse, \* what MpseGroup::create_offload_mpse returns in this build
    port_tables,     \* sc->port_tables: per protocol src, dst and any, and svc_any
    srmmTable,       \* sc->srmmTable: to_srv and to_cli, service name -> rule list
    spgmmTable,      \* sc->spgmmTable: to_srv and to_cli, service name -> PortGroup
    sopgTable,       \* sc->sopgTable: to_srv and to_cli, protocol id -> PortGroup
    prm,             \* sc->prmIpRTNX, prmIcmpRTNX, prmTcpRTNX, prmUdpRTNX
    groups,          \* the PortGroup objects allocated, by allocation number
    s_tbd,           \* the MPSEs queue_mpse queued for compilation
    pc,              \* where fpCreateFastPacketDetection is
    mt_query,        \* what can_build_mt was told: reloading, parallel_compiles
    build_mt,        \* the second argument of compile_mpses
    started,         \* how many queued MPSEs a compile thread has taken
    running,         \* the queued MPSEs being compiled
    compiled,        \* the MPSEs compiled without failure
    fixup_done,      \* fixup_trees has run
    fixup_call       \* the fixup_tree or fixup_trees call looked at on its own

build_vars ==
    << split_any_any, create_offload_mpse, port_tables, srmmTable, spgmmTable,
       sopgTable, prm, groups, s_tbd, pc, mt_query, build_mt, started, running,
       compiled, fixup_done, fixup_call >>

vars == << hpack_vars, dot_vars, pg_vars, fin_vars, build_vars >>

\* Number of otn_create_tree calls in one behaviour.
MaxInserts == 3

\* Mpse::MpseType
MPSE_TYPE_NORMAL == "normal"

MPSE_TYPE_OFFLOAD == "offload"

\* The pattern-state trees of the configuration: the tree the normal MPSE
\* builds and the tree the offload MPSE builds, each named by the type of
\* its MPSE.
Trees == { MPSE_TYPE_NORMAL, MPSE_TYPE_OFFLOAD }

\* The mpse_type the MPSE of tree t passes to pmx_create_tree.
TreeType(t) == t

RULE_OPTION_TYPE_LEAF_NODE == "leaf"

RULE_OPTION_TYPE_CONTENT == "content"

RULE_OPTION_TYPE_PCRE == "pcre"

\* A null existing_tree.
NoRoot == [otn |-> 0, num_children |-> 0, children |-> <<>>]

NoInsert == [tree |-> "none", otn |-> 0, new_inner |-> FALSE, new_leaf |-> FALSE]

\* No tree exists before the first create_tree call.
DotInit ==
    /\ nodes = <<>>
    /\ roots = [t \in Trees |-> NoRoot]
    /\ detection_option_tree_hash_table = <<>>
    /\ freed_nodes = {}
    /\ finalized = {}
    /\ inserted = [t \in Trees |-> <<>>]
    /\ last_insert = NoInsert

(***************************************************************************)
(* Detection option trees: rules and options                               *)
(***************************************************************************)

\* An OptFpList entry: the option's type, the identity of its ips_opt, its
\* evaluation callback and whether it is relative.
Option(type, ips_opt, isRelative) ==
    [type |-> type, ips_opt |-> ips_opt, OptTestFunc |-> ips_opt,
     isRelative |-> isRelative]

\* The entry that ends every rule's option list.
OptListEnd == Option(RULE_OPTION_TYPE_LEAF_NODE, 0, FALSE)

OptA == Option(RULE_OPTION_TYPE_CONTENT, 1, FALSE)

OptB == Option(RULE_OPTION_TYPE_CONTENT, 2, TRUE)

OptC == Option(RULE_OPTION_TYPE_PCRE, 3, TRUE)

OptF == Option(RULE_OPTION_TYPE_CONTENT, 4, FALSE)

Sig(gid, sid, rev) == [gid |-> gid, sid |-> sid, rev |-> rev]

\* An OptTreeNode: normal_fp_only and offload_fp_only are the position in
\* opt_func of the entry fpAddPortGroupRule recorded, 0 for null.
Otn(sig, opt_func, normal_fp_only, offload_fp_only) ==
    [sigInfo |-> sig, opt_func |-> opt_func,
     normal_fp_only |-> normal_fp_only, offload_fp_only |-> offload_fp_only]

\* The rules of the configuration: a rule whose fast pattern is fast-pattern
\* only for the normal MPSE (1), a rule that shares its first option (2), a
\* prefix of both (3), a rule without options (4), the first rule once more
\* as another object with the same gid:sid:rev (5), a rule with the options
\* of the first and another sid (6), one that differs in gid only (7), a
\* rule with a regular expression only (8), a rule with one relative content
\* (9) and a rule with the fast-pattern content only (10).
Otns ==
    << Otn(Sig(1, 1, 1), << OptF, OptA, OptB, OptListEnd >>, 1, 0),
       Otn(Sig(1, 2, 1), << OptA, OptC, OptListEnd >>, 0, 0),
       Otn(Sig(1, 3, 1), << OptA, OptListEnd >>, 0, 0),
       Otn(Sig(1, 4, 1), << OptListEnd >>, 0, 0),
       Otn(Sig(1, 1, 1), << OptF, OptA, OptB, OptListEnd >>, 1, 0),
       Otn(Sig(1, 6, 1), << OptF, OptA, OptB, OptListEnd >>, 1, 1),
       Otn(Sig(2, 3, 1), << OptA, OptListEnd >>, 0, 0),
       Otn(Sig(1, 8, 1), << OptC, OptListEnd >>, 0, 0),
       Otn(Sig(1, 9, 1), << OptB, OptListEnd >>, 0, 0),
       Otn(Sig(1, 10, 1), << OptF, OptListEnd >>, 0, 0) >>

OtnIds == DOMAIN Otns

\* option_data of a node: an ips_opt pointer or, in a leaf, an otn pointer.
OptionData(ips_opt) == << "ips_opt", ips_opt >>

OtnData(otn) == << "otn", otn >>

\* is_fast_pattern_only(otn, opt_fp, mpse_type): the entry is the one
\* recorded as fast-pattern only for the MPSE type.
is_fast_pattern_only(otn, k, mpse_type) ==
    \/ mpse_type = MPSE_TYPE_NORMAL /\ Otns[otn].normal_fp_only = k
    \/ mpse_type = MPSE_TYPE_OFFLOAD /\ Otns[otn].offload_fp_only = k

\* new_node(type, data): a zeroed node.
new_node(type, data) ==
    [option_type |-> type, option_data |-> data, evaluate |-> 0,
     is_relative |-> FALSE, num_children |-> 0, children |-> <<>>,
     relative_children |-> 0, otn |-> 0]

\* new_root(otn): a root without children.
new_root(otn) == [otn |-> otn, num_children |-> 0, children |-> <<>>]



(***************************************************************************)
(* Port groups: patterns, MPSEs and the selector                           *)
(***************************************************************************)

\* Number of rules of the port object's rule_hash.
MaxRules == 3

\* The pm_type of a pattern indexes pg->mpsegrp.
PM_TYPE_PKT == "pkt"

PM_TYPE_KEY == "key"

PmTypes == { PM_TYPE_PKT, PM_TYPE_KEY }

\* fp->get_search_api(), and what fp->get_offload_search_api() may be: none,
\* the normal api or another one.
search_api == "api"

OffloadApis == { "none", "api", "offload_api" }

\* fp->get_search_opt()
search_opt == TRUE

\* fp->max_pattern_len, the cap FastPatternConfig::set_max applies.
max_pattern_len == 2

\* A PatternMatchData: the content option of the rule it belongs to (its
\* position in opt_func), the length of its pattern, its pm_type and whether
\* it is negated; a literal that is no fast_pattern and asks for no slice,
\* unless said otherwise.
Pmd(opt, pattern_size, pm_type, negated) ==
    [opt |-> opt, pattern_size |-> pattern_size, pm_type |-> pm_type,
     negated |-> negated, is_literal |-> TRUE, fast_pattern |-> FALSE,
     fp_offset |-> 0, fp_length |-> 0]

\* A regular expression.
Regex(pmd) == [pmd EXCEPT !.is_literal = FALSE]

\* A content with fast_pattern:offset,length.
FastPattern(pmd, fp_offset, fp_length) ==
    [pmd EXCEPT !.fast_pattern = TRUE, !.fp_offset = fp_offset,
                !.fp_length = fp_length]

\* What the selector answers for a rule: the vector, main pattern last, and
\* exclude.
Selection(pmv, exclude) == [pmv |-> pmv, exclude |-> exclude]

\* get_fp_content(otn, ofp, srvc, only_literal, exclude) for the rules of the
\* configuration.  The normal api searches regular expressions, the other
\* api literals only.  Content A is negated and C is a regular expression in
\* the key buffer; the first rule has content B as an alternate of its fast
\* pattern F, and the rule with another sid asks for a slice of F.
get_fp_content(otn, only_literal) ==
    CASE otn \in {1, 5} ->
            Selection(<< Pmd(3, 5, PM_TYPE_PKT, FALSE),
                         Pmd(1, 4, PM_TYPE_PKT, FALSE) >>, FALSE)
      [] otn = 6 ->
            Selection(<< FastPattern(Pmd(1, 4, PM_TYPE_PKT, FALSE), 1, 2) >>, FALSE)
      [] otn = 2 ->
            IF only_literal
            THEN Selection(<< Pmd(1, 3, PM_TYPE_PKT, TRUE) >>, FALSE)
            ELSE Selection(<< Pmd(1, 3, PM_TYPE_PKT, TRUE),
                              Regex(Pmd(2, 5, PM_TYPE_KEY, FALSE)) >>, FALSE)
      [] otn \in {3, 7} -> Selection(<< Pmd(1, 3, PM_TYPE_PKT, TRUE) >>, FALSE)
      [] otn = 4 -> Selection(<< >>, FALSE)
      [] otn = 8 ->
            IF only_literal
            THEN Selection(<< >>, TRUE)
            ELSE Selection(<< Regex(Pmd(1, 5, PM_TYPE_KEY, FALSE)) >>, FALSE)
      [] otn = 9 -> Selection(<< >>, TRUE)
      [] otn = 10 ->
            Selection(<< FastPattern(Pmd(1, 4, PM_TYPE_PKT, FALSE), 1, 0) >>, FALSE)

\* MpseManager::is_regex_capable(api)
is_regex_capable(api) == api = search_api

\* otn->sigInfo.builtin: the rules of a builtin generator.
builtin(otn) == Otns[otn].sigInfo.gid # 1

\* otn->enabled_somewhere(): the second object of a gid:sid:rev belongs to a
\* policy that does not enable it.
enabled_somewhere(otn) == otn # 5

\* is_network_protocol(otn->snort_protocol_id): the rule with the lone fast
\* pattern is a file rule.
is_network_protocol(otn) == otn # 10

\* make_fast_pattern_only(ofp, pmd): the pattern's option is the one the
\* rule can leave to the MPSE of that type.
make_fast_pattern_only(otn, pmd, mpse_type) ==
    is_fast_pattern_only(otn, pmd.opt, mpse_type)

\* A null Mpse pointer, and an MPSE as MpseGroup::create_normal_mpse or
\* create_offload_mpse makes it.
NullMpse ==
    [exists |-> FALSE, opt |-> FALSE, patterns |-> << >>, queued |-> FALSE,
     compiled |-> FALSE, tree |-> NoRoot]

NewMpse == [NullMpse EXCEPT !.exists = TRUE]

\* A null MpseGroup pointer, and new MpseGroup.
NullMpseGroup ==
    [exists |-> FALSE, normal_mpse |-> NullMpse, offload_mpse |-> NullMpse]

NewMpseGroup == [NullMpseGroup EXCEPT !.exists = TRUE]

NoMeta == [longestPatternLen |-> 0, normal_fp_only |-> 0, offload_fp_only |-> 0]

NoAdd == [otn |-> 0, ret |-> 0]

\* PortGroup::alloc() and the statics as fpCreateFastPacketDetection resets
\* them, before the first rule of the port object.
PgInit ==
    /\ mpsegrp = [t \in PmTypes |-> NullMpseGroup]
    /\ nfp_head = << >>
    /\ nfp_rule_count = 0
    /\ rule_count = 0
    /\ nfp_tree = NoRoot
    /\ mpse_count = 0
    /\ offload_mpse_count = 0
    /\ parse_errors = << >>
    /\ num_patterns_truncated = 0
    /\ otn_meta = [otn \in OtnIds |-> NoMeta]
    /\ po_group = "unset"
    /\ handed = << >>
    /\ last_add = NoAdd
    /\ create_failed = {}

\* No call of fpGetFinalPattern is looked at.
NoFinal == [pattern |-> 0, bytes |-> 0, ret |-> -1]

FinIdle ==
    /\ final_pmd = Pmd(1, 1, PM_TYPE_PKT, FALSE)
    /\ final_max = max_pattern_len
    /\ final_ret = NoFinal

\* No call of fixup_tree is looked at.
NoCall == [dot |-> -1, branched |-> FALSE, contents |-> 0, otn |-> 0]

\* fpCreateFastPacketDetection has not been called.
BuildIdle ==
    /\ split_any_any = FALSE
    /\ create_offload_mpse = TRUE
    /\ port_tables = << >>
    /\ srmmTable = << >>
    /\ spgmmTable = << >>
    /\ sopgTable = << >>
    /\ prm = << >>
    /\ groups = << >>
    /\ s_tbd = << >>
    /\ pc = [phase |-> "idle", k |-> 0]
    /\ mt_query = << >>
    /\ build_mt = FALSE
    /\ started = 0
    /\ running = {}
    /\ compiled = 0
    /\ fixup_done = FALSE
    /\ fixup_call = NoCall

\* The object's fields as one record.
Table ==
    [ start |-> start,
      num_entries |-> num_entries,
      rfc_table_size |-> rfc_table_size,
      max_size |-> max_size,
      table_memory_allocated |-> table_memory_allocated,
      circular_buf |-> circular_buf,
      allocations |-> allocations,
      deallocations |-> deallocations,
      freed |-> freed ]

\* name.length() + value.length() + RFC_ENTRY_OVERHEAD of an entry
EntrySize(e) == U32(Len(e.name) + Len(e.value) + RFC_ENTRY_OVERHEAD)


(***************************************************************************)
(* Field and HpackTableEntry                                               *)
(***************************************************************************)

\* A Field argument: a length and a pointer to bytes.  src is the slot of the
\* table entry whose buffer the pointer refers to (a header whose name or
\* value is taken from the table by index), or NoSlot when the bytes live
\* outside the table; bytes are the bytes the pointer refers to at the call.
OwnField(b) == [src |-> NoSlot, bytes |-> b]

NameOf(buf, i) == [src |-> i, bytes |-> buf[i].name]

ValueOf(buf, i) == [src |-> i, bytes |-> buf[i].value]

\* The bytes read through a Field while the heap holds buf.  Reading the
\* buffer of an entry that has been deleted is a use after free: any bytes of
\* the field's length may be read.
ReadField(buf, f, choices) ==
    IF f.src = NoSlot \/ buf[f.src] # NULL
    THEN { f.bytes }
    ELSE { b \in choices : Len(b) = Len(f.bytes) } \cup { f.bytes }

\* new HpackTableEntry(name, value): the entry owns copies of the bytes read
\* at construction.
HpackTableEntry(buf, name, value, id) ==
    { [id |-> id, name |-> n, value |-> v] :
        n \in ReadField(buf, name, NameChoices \cup ValueChoices),
        v \in ReadField(buf, value, NameChoices \cup ValueChoices) }

(***************************************************************************)
(* HpackDynamicTable::prune_to_size                                        *)
(***************************************************************************)

\* last_index one slot past the oldest live entry.
last_index_past_window(t) == U32(t.start + t.num_entries + ARRAY_CAPACITY) % ARRAY_CAPACITY

\* The slot of the oldest live entry.
last_index(t) == U32(t.start + t.num_entries - 1 + ARRAY_CAPACITY) % ARRAY_CAPACITY

\* prune_slot with the per-entry overhead left out of the subtraction.
prune_slot_no_overhead(t, indx) ==
    [t EXCEPT !.num_entries = U32(t.num_entries - 1),
              !.rfc_table_size = U32(t.rfc_table_size
                    - (Len(t.circular_buf[indx].name) + Len(t.circular_buf[indx].value))),
              !.circular_buf = [t.circular_buf EXCEPT ![indx] = NULL]]

\* One iteration: the slot handed to the loop body is deleted and nulled.
prune_slot(t, indx) ==
    [t EXCEPT !.num_entries = U32(t.num_entries - 1),
              !.rfc_table_size = U32(t.rfc_table_size - EntrySize(t.circular_buf[indx])),
              !.freed = [@ EXCEPT ![t.circular_buf[indx].id] = @ + 1],
              !.circular_buf = [t.circular_buf EXCEPT ![indx] = NULL]]

\* prune_index evicting the newest entry instead of the oldest.
prune_index_newest(t) == t.start

\* The slot the loop evicts.
prune_index(t) == last_index(t)

\* The loop with a body that deletes the entry and leaves the pointer in
\* the slot.
RECURSIVE prune_to_size_dangling(_, _)
prune_to_size_dangling(t, new_max_size) ==
    IF t.rfc_table_size > new_max_size /\ t.num_entries > 0
    THEN prune_to_size_dangling(
            [t EXCEPT !.num_entries = U32(t.num_entries - 1),
                      !.rfc_table_size =
                          U32(t.rfc_table_size - EntrySize(t.circular_buf[prune_index(t)]))],
            new_max_size)
    ELSE t

\* while (rfc_table_size > new_max_size) evict.  The body dereferences
\* circular_buf[last_index]; were that pointer null the process would fault
\* there, which ends the loop (C10_HpackWindow shows the pointer is never
\* null).
RECURSIVE prune_to_size(_, _)
prune_to_size(t, new_max_size) ==
    IF t.rfc_table_size > new_max_size /\ t.circular_buf[prune_index(t)] # NULL
    THEN prune_to_size(prune_slot(t, prune_index(t)), new_max_size)
    ELSE t

(***************************************************************************)
(* HpackDynamicTable::add_entry                                            *)
(***************************************************************************)

\* array_full with the comparison off by one.
array_full_off_by_one(t) == t.num_entries > ARRAY_CAPACITY

\* if (num_entries >= ARRAY_CAPACITY) return false;
array_full(t) == t.num_entries >= ARRAY_CAPACITY

\* const uint32_t new_entry_size = name.length() + value.length() + RFC_ENTRY_OVERHEAD;
new_entry_size(name, value) ==
    U32(Len(name.bytes) + Len(value.bytes) + RFC_ENTRY_OVERHEAD)

\* if (new_entry_size > max_size) { prune_to_size(0); return true; }
oversize(t, name, value) == new_entry_size(name, value) > t.max_size

\* clear_table pruning to the table's limit instead of to nothing.
clear_table_to_max(t) == prune_to_size(t, t.max_size)

clear_table(t) == prune_to_size(t, 0)

\* construction_heap with the entry created after the pruning.
construction_heap_after_prune(before, pruned) == pruned.circular_buf

\* The heap the new entry is constructed from: the entry is created before
\* the pruning, so its sources are read while they are still allocated.
construction_heap(before, pruned) == before.circular_buf

\* make_room that forgets the size of the entry to come.
make_room_for_nothing(t, size) == prune_to_size(t, t.max_size)

\* prune_to_size(max_size - new_entry_size)
make_room(t, size) == prune_to_size(t, U32(t.max_size - size))

\* start = (start + ARRAY_CAPACITY - 1) % ARRAY_CAPACITY;
new_start(t) == U32(t.start + ARRAY_CAPACITY - 1) % ARRAY_CAPACITY

\* track_memory that grows the tracked memory and reports nothing.
RECURSIVE track_memory(_)
track_memory_unreported(t) ==
    IF t.rfc_table_size > t.table_memory_allocated
    THEN track_memory(
            [t EXCEPT !.table_memory_allocated =
                          U32(@ + TABLE_MEMORY_TRACKING_INCREMENT)])
    ELSE t

\* while (rfc_table_size > table_memory_allocated) grow by one increment and
\* report it.
track_memory(t) ==
    IF t.rfc_table_size > t.table_memory_allocated
    THEN track_memory(
            [t EXCEPT !.allocations = @ + TABLE_MEMORY_TRACKING_INCREMENT,
                      !.table_memory_allocated =
                          U32(@ + TABLE_MEMORY_TRACKING_INCREMENT)])
    ELSE t

\* Lines 83-96: the new entry goes in front of the live window.
insert_entry(t, new_entry, size) ==
    LET s == new_start(t) IN
    track_memory(
        [t EXCEPT !.start = s,
                  !.circular_buf = [t.circular_buf EXCEPT ![s] = new_entry],
                  !.num_entries = U32(t.num_entries + 1),
                  !.rfc_table_size = U32(t.rfc_table_size + size)])

\* add_entry that clears the table before it reports the full array.
add_entry_full_clears(t, name, value, id) ==
    IF array_full(t)
    THEN { [t |-> clear_table(t), ret |-> FALSE, stored |-> FALSE] }
    ELSE IF oversize(t, name, value)
    THEN { [t |-> clear_table(t), ret |-> TRUE, stored |-> FALSE] }
    ELSE LET size == new_entry_size(name, value)
             pruned == make_room(t, size)
         IN  { [t |-> insert_entry(pruned, e, size), ret |-> TRUE, stored |-> TRUE] :
                 e \in HpackTableEntry(construction_heap(t, pruned), name, value, id) }

\* The outcomes of add_entry(name, value) on table t; id numbers the entry
\* the call allocates.  stored tells whether the entry went into the table.
add_entry(t, name, value, id) ==
    IF array_full(t)
    THEN { [t |-> t, ret |-> FALSE, stored |-> FALSE] }
    ELSE IF oversize(t, name, value)
    THEN { [t |-> clear_table(t), ret |-> TRUE, stored |-> FALSE] }
    ELSE LET size == new_entry_size(name, value)
             pruned == make_room(t, size)
         IN  { [t |-> insert_entry(pruned, e, size), ret |-> TRUE, stored |-> TRUE] :
                 e \in HpackTableEntry(construction_heap(t, pruned), name, value, id) }

(***************************************************************************)
(* HpackDynamicTable::get_entry                                            *)
(***************************************************************************)

\* const uint32_t dyn_index = virtual_index - HpackIndexTable::STATIC_MAX_INDEX - 1;
dyn_index(virtual_index) == U32(virtual_index - STATIC_MAX_INDEX - 1)

\* if (dyn_index + 1 > num_entries) return nullptr;
beyond_entries(t, virtual_index) == U32(dyn_index(virtual_index) + 1) > t.num_entries

\* arr_index counting the dynamic index from one.
arr_index_from_one(t, virtual_index) ==
    U32(t.start + dyn_index(virtual_index) + 1) % ARRAY_CAPACITY

\* const uint32_t arr_index = (start + dyn_index) % ARRAY_CAPACITY;
arr_index(t, virtual_index) == U32(t.start + dyn_index(virtual_index)) % ARRAY_CAPACITY

get_entry(t, virtual_index) ==
    IF beyond_entries(t, virtual_index)
    THEN NULL
    ELSE t.circular_buf[arr_index(t, virtual_index)]

(***************************************************************************)
(* HpackDynamicTable::update_size                                          *)
(***************************************************************************)

\* shrink that empties the table when the entries do not fit.
shrink_to_nothing(t, new_size) ==
    IF new_size < t.rfc_table_size THEN prune_to_size(t, 0) ELSE t

\* if (new_size < rfc_table_size) prune_to_size(new_size);
shrink(t, new_size) ==
    IF new_size < t.rfc_table_size THEN prune_to_size(t, new_size) ELSE t

\* update_size that sets the limit and leaves the entries alone.
update_size_no_prune(t, new_size) == [t EXCEPT !.max_size = new_size]

update_size(t, new_size) == [shrink(t, new_size) EXCEPT !.max_size = new_size]

(***************************************************************************)
(* HpackDynamicTable::~HpackDynamicTable                                   *)
(***************************************************************************)

\* The slots the destructor's loop visits: num_entries slots from start on.
destructor_slots(t) ==
    [i \in 0 .. (t.num_entries - 1) |-> (t.start + i) % ARRAY_CAPACITY]

\* for (i = 0, indx = start; i < num_entries; i++) delete circular_buf[indx];
\* the pointers stay in the slots.
delete_entries(t) ==
    LET visited == destructor_slots(t) IN
    [t EXCEPT !.freed =
        [id \in DOMAIN t.freed |->
            t.freed[id] + Cardinality({ i \in DOMAIN visited :
                                          t.circular_buf[visited[i]].id = id })]]

\* release_increments stopping one increment late.
RECURSIVE release_increments_to_zero(_)
release_increments_to_zero(t) ==
    IF t.table_memory_allocated >= TABLE_MEMORY_TRACKING_INCREMENT
    THEN release_increments_to_zero(
            [t EXCEPT !.deallocations = @ + TABLE_MEMORY_TRACKING_INCREMENT,
                      !.table_memory_allocated =
                          U32(@ - TABLE_MEMORY_TRACKING_INCREMENT)])
    ELSE t

\* while (table_memory_allocated > TABLE_MEMORY_TRACKING_INCREMENT) report
\* one increment as deallocated.
RECURSIVE release_increments(_)
release_increments(t) ==
    IF t.table_memory_allocated > TABLE_MEMORY_TRACKING_INCREMENT
    THEN release_increments(
            [t EXCEPT !.deallocations = @ + TABLE_MEMORY_TRACKING_INCREMENT,
                      !.table_memory_allocated =
                          U32(@ - TABLE_MEMORY_TRACKING_INCREMENT)])
    ELSE t

\* The array and the first increment are reported as deallocated.
release_baseline(t) ==
    [t EXCEPT !.deallocations =
        @ + ARRAY_CAPACITY * POINTER_SIZE + TABLE_MEMORY_TRACKING_INCREMENT]

hpack_destructor(t) == release_increments(release_baseline(delete_entries(t)))

(***************************************************************************)
(* Actions                                                                 *)
(***************************************************************************)

\* The state after the constructor: an empty array, and the array plus one
\* tracking increment reported to the flow.  max_size starts at any of the
\* offered sizes (the protocol default or a configured one).
HpackInit ==
    /\ start = 0
    /\ num_entries = 0
    /\ rfc_table_size = 0
    /\ max_size \in SizeChoices
    /\ table_memory_allocated = TABLE_MEMORY_TRACKING_INCREMENT
    /\ circular_buf = [i \in Slots |-> NULL]
    /\ allocations = ARRAY_CAPACITY * POINTER_SIZE + TABLE_MEMORY_TRACKING_INCREMENT
    /\ deallocations = 0
    /\ freed = [id \in 0 .. MaxStored |-> 0]
    /\ destroyed = FALSE
    /\ next_id = 1
    /\ size_limit = -1
    /\ call = [op |-> "new", name |-> OwnField(<<>>), value |-> OwnField(<<>>),
               arg |-> 0, ret |-> FALSE, entry |-> NULL, evicted |-> 0]

Init ==
    /\ HpackInit /\ DotInit /\ PgInit /\ offload_search_api = "none"
    /\ FinIdle /\ BuildIdle

SetTable(t) ==
    /\ start' = t.start
    /\ num_entries' = t.num_entries
    /\ rfc_table_size' = t.rfc_table_size
    /\ max_size' = t.max_size
    /\ table_memory_allocated' = t.table_memory_allocated
    /\ circular_buf' = t.circular_buf
    /\ allocations' = t.allocations
    /\ deallocations' = t.deallocations
    /\ freed' = t.freed

LiveSlots(buf) == { i \in Slots : buf[i] # NULL }

\* The Fields a caller can pass: bytes of its own, or the name (value) of an
\* entry it has just looked up in the table.
NameFields == { OwnField(b) : b \in NameChoices }
                  \cup { NameOf(circular_buf, i) : i \in LiveSlots(circular_buf) }

ValueFields == { OwnField(b) : b \in ValueChoices }
                  \cup { ValueOf(circular_buf, i) : i \in LiveSlots(circular_buf) }

\* Number of entries of buf that are no longer in buf2.
Evicted(buf, buf2) ==
    Cardinality({ i \in Slots : buf[i] # NULL /\ \A j \in Slots : buf2[j].id # buf[i].id })

AddEntry ==
    /\ UNCHANGED << dot_vars, pg_vars, fin_vars, build_vars >>
    /\ ~destroyed
    /\ next_id <= MaxStored
    /\ \E name \in NameFields, value \in ValueFields :
         \E o \in add_entry(Table, name, value, next_id) :
            /\ SetTable(o.t)
            /\ next_id' = IF o.stored THEN next_id + 1 ELSE next_id
            /\ call' = [op |-> "add", name |-> name, value |-> value,
                        arg |-> new_entry_size(name, value), ret |-> o.ret,
                        entry |-> NULL,
                        evicted |-> Evicted(circular_buf, o.t.circular_buf)]
    /\ UNCHANGED << size_limit, destroyed >>

GetEntry ==
    /\ UNCHANGED << dot_vars, pg_vars, fin_vars, build_vars >>
    /\ ~destroyed
    /\ \E virtual_index \in IndexChoices :
         call' = [op |-> "get", name |-> OwnField(<<>>), value |-> OwnField(<<>>),
                  arg |-> virtual_index, ret |-> TRUE,
                  entry |-> get_entry(Table, virtual_index), evicted |-> 0]
    /\ UNCHANGED << start, num_entries, rfc_table_size, max_size,
                    table_memory_allocated, circular_buf, allocations,
                    deallocations, freed, destroyed, next_id, size_limit >>

UpdateSize ==
    /\ UNCHANGED << dot_vars, pg_vars, fin_vars, build_vars >>
    /\ ~destroyed
    /\ \E new_size \in SizeChoices :
         LET t == update_size(Table, new_size) IN
            /\ SetTable(t)
            /\ size_limit' = new_size
            /\ call' = [op |-> "update", name |-> OwnField(<<>>),
                        value |-> OwnField(<<>>), arg |-> new_size, ret |-> TRUE,
                        entry |-> NULL,
                        evicted |-> Evicted(circular_buf, t.circular_buf)]
    /\ UNCHANGED << next_id, destroyed >>

\* The flow deletes its table; no method is called on it afterwards.
Destructor ==
    /\ UNCHANGED << dot_vars, pg_vars, fin_vars, build_vars >>
    /\ ~destroyed
    /\ SetTable(hpack_destructor(Table))
    /\ destroyed' = TRUE
    /\ call' = [op |-> "delete", name |-> OwnField(<<>>), value |-> OwnField(<<>>),
                arg |-> 0, ret |-> TRUE, entry |-> NULL, evicted |-> 0]
    /\ UNCHANGED << next_id, size_limit >>

Next == AddEntry \/ GetEntry \/ UpdateSize \/ Destructor

SpecHpack == Init /\ [][Next]_vars


(***************************************************************************)
(* Properties of the HPACK dynamic table                                   *)
(***************************************************************************)

\* The slots of the live window: start .. start + num_entries - 1, wrapped.
Window == { (start + i) % ARRAY_CAPACITY : i \in 0 .. (num_entries - 1) }

RECURSIVE SumSizes(_)
SumSizes(slots) ==
    IF slots = {} THEN 0
    ELSE LET i == CHOOSE j \in slots : TRUE
         IN  EntrySize(circular_buf[i]) + SumSizes(slots \ {i})

\* What get_entry returns for the i-th dynamic index (1 is the first).
Dynamic(i) == get_entry(Table, STATIC_MAX_INDEX + i)

Aliased(c) == c.name.src # NoSlot \/ c.value.src # NoSlot

\* C1: rfc_table_size is the sum, over the live entries, of name length +
\* value length + RFC_ENTRY_OVERHEAD; it is 0 exactly when num_entries is 0.
C1_RfcSizeIsSum ==
    /\ rfc_table_size = SumSizes(Window)
    /\ rfc_table_size = SumSizes(LiveSlots(circular_buf))
    /\ (rfc_table_size = 0) <=> (num_entries = 0)

\* An update_size has evicted some entries and left others of different sizes.
C1_Witness ==
    /\ call.op = "update"
    /\ call.evicted >= 1
    /\ num_entries >= 2
    /\ \E i, j \in Window : EntrySize(circular_buf[i]) # EntrySize(circular_buf[j])

\* C2: between operations rfc_table_size <= max_size, also after an add of
\* an entry larger than max_size.
C2_SizeWithinMax == rfc_table_size <= max_size

\* An add has evicted entries to fit, and the table is filled to the limit.
C2_Witness ==
    /\ call.op = "add"
    /\ call.ret
    /\ call.evicted >= 1
    /\ num_entries >= 2
    /\ rfc_table_size = max_size

\* C3: add_entry returns false if and only if num_entries equals
\* ARRAY_CAPACITY when it is called, whatever the entry's size and max_size.
C3_AddFailsIffFull ==
    [][ call'.op = "add" =>
          ((call'.ret = FALSE) <=> (num_entries = ARRAY_CAPACITY)) ]_vars

\* An add of an entry larger than max_size has failed on a full array.
C3_Witness ==
    /\ call.op = "add"
    /\ call.ret = FALSE
    /\ num_entries = ARRAY_CAPACITY
    /\ call.arg > max_size

\* C4 as stated: every add_entry of an entry larger than max_size clears the
\* table, stores nothing and returns true.
C4_OversizeAddAlwaysClears ==
    (call.op = "add" /\ call.arg > max_size) =>
        /\ call.ret = TRUE
        /\ num_entries = 0
        /\ rfc_table_size = 0
        /\ LiveSlots(circular_buf) = {}

\* C4 amended: an add_entry of an entry larger than max_size, called while
\* the array is not full, clears the table, stores nothing and returns true.
C4_OversizeAddClears ==
    [][ (call'.op = "add" /\ call'.arg > max_size /\ num_entries < ARRAY_CAPACITY) =>
          /\ call'.ret = TRUE
          /\ num_entries' = 0
          /\ rfc_table_size' = 0
          /\ LiveSlots(circular_buf') = {}
          /\ next_id' = next_id ]_vars

\* An oversize add has cleared a table of several entries.
C4_Witness ==
    /\ call.op = "add"
    /\ call.arg > max_size
    /\ call.ret
    /\ call.evicted >= 2
    /\ num_entries = 0

\* C5: directly after an add_entry(n, v) that returns true with
\* size(n, v) <= max_size, get_entry(STATIC_MAX_INDEX + 1) is (n, v).
C5_NewestIsAdded ==
    (call.op = "add" /\ call.ret /\ call.arg <= max_size) =>
        /\ Dynamic(1) # NULL
        /\ Dynamic(1).name = call.name.bytes
        /\ Dynamic(1).value = call.value.bytes

\* The add went into a window that wraps around the end of the array.
C5_Witness ==
    /\ call.op = "add"
    /\ call.ret
    /\ call.arg <= max_size
    /\ num_entries >= 2
    /\ start + num_entries > ARRAY_CAPACITY

\* C6: the live entries are the num_entries most recently stored ones,
\* get_entry(STATIC_MAX_INDEX + i) is the i-th most recently stored, and so
\* no entry is evicted while an entry stored before it is live.
C6_OldestFirst ==
    /\ \A i \in 1 .. num_entries : Dynamic(i).id = next_id - i
    /\ { circular_buf[i].id : i \in LiveSlots(circular_buf) }
           = { next_id - i : i \in 1 .. num_entries }

\* An add has evicted the oldest entries and kept younger ones.
C6_Witness ==
    /\ call.op = "add"
    /\ call.ret
    /\ call.evicted >= 1
    /\ num_entries >= 3
    /\ next_id - num_entries > 1

\* C7 as stated: get_entry returns none whenever dyn_index >= num_entries,
\* and the live entry of slot (start + dyn_index) mod ARRAY_CAPACITY
\* otherwise.
C7_GetEntryInWindow ==
    call.op = "get" =>
        LET d == dyn_index(call.arg) IN
        IF d >= num_entries
        THEN call.entry = NULL
        ELSE /\ call.entry = circular_buf[(start + d) % ARRAY_CAPACITY]
             /\ call.entry # NULL

\* C8: after update_size(s), max_size = s and rfc_table_size <= s; nothing
\* is evicted if s >= rfc_table_size before; and both stay so over the
\* add_entry calls that follow.
C8_UpdateSizeBounds ==
    [][ /\ (size_limit' # -1) => (max_size' = size_limit' /\ rfc_table_size' <= size_limit')
        /\ (call'.op = "update") => (size_limit' = call'.arg)
        /\ (call'.op = "add") => (size_limit' = size_limit)
        /\ (call'.op = "update" /\ call'.arg >= rfc_table_size) =>
              (circular_buf' = circular_buf /\ num_entries' = num_entries
                  /\ rfc_table_size' = rfc_table_size) ]_vars

\* An add after an update_size has filled the table up to the new limit.
C8_Witness ==
    /\ call.op = "add"
    /\ call.ret
    /\ size_limit # -1
    /\ size_limit < MaxTableSize
    /\ num_entries >= 2
    /\ rfc_table_size + RFC_ENTRY_OVERHEAD > size_limit

\* C9 as stated: every add_entry whose name or value refers to the bytes of
\* an entry in the table succeeds and stores those bytes.
C9_AliasedAddAlwaysStored ==
    (call.op = "add" /\ Aliased(call)) =>
        /\ call.ret
        /\ Dynamic(1).name = call.name.bytes
        /\ Dynamic(1).value = call.value.bytes

\* C9 amended: an add_entry whose name or value refers to the bytes of an
\* entry in the table, called while the array is not full with an entry no
\* larger than max_size, returns true and stores the bytes the entry had
\* before the call, also when that entry is evicted by the same add.
C9_AliasedAddStored ==
    [][ (call'.op = "add" /\ Aliased(call') /\ num_entries < ARRAY_CAPACITY
            /\ call'.arg <= max_size) =>
          /\ call'.ret
          /\ Dynamic(1)' # NULL
          /\ Dynamic(1)'.name = call'.name.bytes
          /\ Dynamic(1)'.value = call'.value.bytes ]_vars

\* The entry the name referred to has been evicted by the add that copied it.
C9_Witness ==
    /\ call.op = "add"
    /\ call.ret
    /\ call.arg <= max_size
    /\ call.name.src # NoSlot
    /\ circular_buf[call.name.src] = NULL
    /\ Dynamic(1).name = call.name.bytes

\* C10: num_entries <= ARRAY_CAPACITY, start < ARRAY_CAPACITY, the slots of
\* the window hold distinct live entries and every other slot is null.
C10_HpackWindow ==
    /\ num_entries <= ARRAY_CAPACITY
    /\ start < ARRAY_CAPACITY
    /\ Cardinality(Window) = num_entries
    /\ \A i \in Window : circular_buf[i] # NULL
    /\ \A i, j \in Window : i # j => circular_buf[i].id # circular_buf[j].id
    /\ \A i \in Slots \ Window : circular_buf[i] = NULL

\* After evictions the window wraps around the end of the array and some
\* slots are empty.
C10_Witness ==
    /\ call.evicted >= 1
    /\ num_entries >= 2
    /\ num_entries < ARRAY_CAPACITY
    /\ start + num_entries > ARRAY_CAPACITY


\* C11: after the destructor the total reported through
\* update_deallocations equals the total reported through
\* update_allocations, and every entry ever allocated has been deleted
\* exactly once; before it, the live entries are not deleted and the evicted
\* ones are deleted once.
C11_TrackerBalanced ==
    /\ destroyed =>
          /\ deallocations = allocations
          /\ \A id \in 1 .. MaxStored : freed[id] = (IF id < next_id THEN 1 ELSE 0)
    /\ ~destroyed =>
          /\ deallocations = 0
          /\ \A i \in LiveSlots(circular_buf) : freed[circular_buf[i].id] = 0
          /\ \A id \in 1 .. MaxStored : freed[id] <= 1

\* A table that grew past the first tracking increment, evicted an entry and
\* still held several entries has been destroyed.
C11_Witness ==
    /\ destroyed
    /\ allocations > ARRAY_CAPACITY * POINTER_SIZE + TABLE_MEMORY_TRACKING_INCREMENT
    /\ num_entries >= 2
    /\ next_id - 1 > num_entries


(***************************************************************************)
(* otn_create_tree                                                         *)
(***************************************************************************)

\* The node a pointer refers to; a null pointer refers to no option.
NodeAt(ns, id) == IF id = 0 THEN new_node("null", << "null", 0 >>) ELSE ns[id]

\* The walk of otn_create_tree is a record of the heap, the root, the locals
\* node, child and i (0 is a null pointer), need_leaf, and whether an inner
\* node was made.  The children array the walk stands on is the root's while
\* node is null.
children_of(w) ==
    IF w.node = 0 THEN w.root.children ELSE w.nodes[w.node].children

num_children_of(w) ==
    IF w.node = 0 THEN w.root.num_children ELSE w.nodes[w.node].num_children

\* C arrays count from 0.
ChildAt(children, i) == IF i + 1 \in DOMAIN children THEN children[i + 1] ELSE 0

\* root->children[i] = child, or node->children[i] = child
set_child(w, i, c) ==
    IF w.node = 0
    THEN [w EXCEPT !.root.children[i + 1] = c]
    ELSE [w EXCEPT !.nodes[w.node].children[i + 1] = c]

\* num_children++, the array is reallocated one longer, and the child goes
\* in its last slot.
grow_children(w, c) ==
    IF w.node = 0
    THEN [w EXCEPT !.root.num_children = @ + 1, !.root.children = Append(@, c)]
    ELSE [w EXCEPT !.nodes[w.node].num_children = @ + 1,
                   !.nodes[w.node].children = Append(@, c)]

\* count_relative counting every new child of a node.
count_relative_always(w, c) ==
    IF w.node # 0
    THEN [w EXCEPT !.nodes[w.node].relative_children = @ + 1]
    ELSE w

\* if (node && child->is_relative) node->relative_children++;
count_relative(w, c) ==
    IF w.node # 0 /\ w.nodes[c].is_relative
    THEN [w EXCEPT !.nodes[w.node].relative_children = @ + 1]
    ELSE w

\* new_node with one empty child slot, the callback and the relative flag
\* of the option.
inner_node(o) ==
    [new_node(o.type, OptionData(o.ips_opt)) EXCEPT
        !.evaluate = o.OptTestFunc,
        !.num_children = 1,
        !.children = << 0 >>,
        !.is_relative = o.isRelative]

\* Lines 210-230: the node has no child yet.
first_child(w, o) ==
    LET c == Len(w.nodes) + 1
        w1 == [w EXCEPT !.nodes = Append(@, inner_node(o))]
        w2 == count_relative(set_child(w1, w.i, c), c)
    IN  [w2 EXCEPT !.child = c, !.need_leaf = TRUE, !.new_inner = TRUE]

\* sibling_match that looks at the first child only.
sibling_match_first_only(w, option_data) ==
    IF w.nodes[w.child].option_data = option_data THEN w.i ELSE -1

\* Lines 235-265: the index of the child that holds option_data, the first
\* child if it matches and else the first match among the later ones; -1 if
\* there is none.
sibling_match(w, option_data) ==
    IF w.nodes[w.child].option_data = option_data
    THEN w.i
    ELSE LET found == { j \in 1 .. (num_children_of(w) - 1) :
                          NodeAt(w.nodes, ChildAt(children_of(w), j)).option_data
                              = option_data }
         IN  IF found = {} THEN -1
             ELSE CHOOSE j \in found : \A k \in found : j <= k

\* Lines 267-305: no child matches, a new one is added to the array.
append_child(w, o) ==
    LET c == Len(w.nodes) + 1
        w1 == [w EXCEPT !.nodes = Append(@, inner_node(o))]
        w2 == count_relative(grow_children(w1, c), c)
    IN  [w2 EXCEPT !.child = c, !.need_leaf = TRUE, !.new_inner = TRUE]

\* Lines 307-309: node = child; i = 0; child = node->children[i];
descend(w) ==
    [w EXCEPT !.node = w.child, !.i = 0,
              !.child = ChildAt(w.nodes[w.child].children, 0)]

\* One pass of the loop body for an option that is not skipped.
add_option(w, o) ==
    IF w.child = 0
    THEN descend(first_child(w, o))
    ELSE LET m == sibling_match(w, OptionData(o.ips_opt)) IN
         IF m >= 0
         THEN descend([w EXCEPT !.i = m, !.child = ChildAt(children_of(w), m)])
         ELSE descend(append_child(w, o))

\* skip_option that keeps the contents that are fast-pattern only.
skip_option_leaf_only(otn, k, mpse_type) ==
    Otns[otn].opt_func[k].type = RULE_OPTION_TYPE_LEAF_NODE

\* Lines 196-208: leaf markers and contents that are only for the fast
\* pattern matcher are passed over.
skip_option(otn, k, mpse_type) ==
    \/ Otns[otn].opt_func[k].type = RULE_OPTION_TYPE_LEAF_NODE
    \/ is_fast_pattern_only(otn, k, mpse_type)

\* while (opt_fp) ... opt_fp = opt_fp->next, from entry k on.
RECURSIVE walk_options(_, _, _, _)
walk_options(w, otn, k, mpse_type) ==
    IF k > Len(Otns[otn].opt_func)
    THEN w
    ELSE IF skip_option(otn, k, mpse_type)
    THEN walk_options(w, otn, k + 1, mpse_type)
    ELSE walk_options(add_option(w, Otns[otn].opt_func[k]), otn, k + 1, mpse_type)

SameSig(a, b) == a.gid = b.gid /\ a.sid = b.sid /\ a.rev = b.rev

\* new_sig that takes every signature for a new one.
new_sig_always(ns, num_children, children, otn) == TRUE

\* new_sig: no leaf among the children carries the gid, sid and rev of otn.
new_sig(ns, num_children, children, otn) ==
    \A i \in 0 .. (num_children - 1) :
        LET child == NodeAt(ns, ChildAt(children, i)) IN
        \/ child.option_type # RULE_OPTION_TYPE_LEAF_NODE
        \/ ~SameSig(Otns[child.option_data[2]].sigInfo, Otns[otn].sigInfo)

\* leaf_needed that adds a leaf only after a new branch.
leaf_needed_after_branch_only(w, otn) == w.need_leaf

\* Lines 317-323
leaf_needed(w, otn) ==
    IF w.need_leaf THEN TRUE
    ELSE new_sig(w.nodes, num_children_of(w), children_of(w), otn)

\* Lines 328-360: the leaf goes into the empty first slot or is appended.
append_leaf(w, otn) ==
    LET c == Len(w.nodes) + 1
        w1 == [w EXCEPT !.nodes =
                  Append(@, new_node(RULE_OPTION_TYPE_LEAF_NODE, OtnData(otn)))]
    IN  IF ChildAt(children_of(w1), 0) # 0
        THEN grow_children(w1, c)
        ELSE set_child(w1, num_children_of(w1) - 1, c)

\* Lines 172-183: a missing root is made, and a root without a children
\* array gets one empty slot.
start_walk(ns, root, otn) ==
    LET r1 == IF root = NoRoot THEN new_root(otn) ELSE root
        fresh == r1.children = <<>>
        r2 == IF fresh
              THEN [r1 EXCEPT !.num_children = @ + 1, !.children = << 0 >>]
              ELSE r1
    IN  [nodes |-> ns, root |-> r2, node |-> 0, i |-> 0,
         child |-> ChildAt(r2.children, 0), need_leaf |-> fresh,
         new_inner |-> FALSE]

\* otn_create_tree(otn, existing_tree, mpse_type): the heap and the root
\* after the call, and whether an inner node and a leaf were made.
otn_create_tree(ns, root, otn, mpse_type) ==
    LET w == walk_options(start_walk(ns, root, otn), otn, 1, mpse_type)
        leaf == leaf_needed(w, otn)
        w2 == IF leaf THEN append_leaf(w, otn) ELSE w
    IN  [nodes |-> w2.nodes, root |-> w2.root,
         new_inner |-> w.new_inner, new_leaf |-> leaf]


(***************************************************************************)
(* finalize_detection_option_tree                                          *)
(***************************************************************************)

\* Structural equality of two sub-trees, the key of the hash table: the
\* option kind, the option data, the relative flag and the children, in
\* order.
RECURSIVE tree_equal(_, _, _)
tree_equal(ns, a, b) ==
    IF a = 0 \/ b = 0 THEN a = b
    ELSE /\ ns[a].option_type = ns[b].option_type
         /\ ns[a].option_data = ns[b].option_data
         /\ ns[a].is_relative = ns[b].is_relative
         /\ ns[a].num_children = ns[b].num_children
         /\ \A i \in 1 .. ns[a].num_children :
               tree_equal(ns, ns[a].children[i], ns[b].children[i])

\* The nodes of a sub-tree.
RECURSIVE subtree(_, _)
subtree(ns, a) ==
    IF a = 0 THEN {}
    ELSE {a} \cup UNION { subtree(ns, ns[a].children[i]) : i \in 1 .. ns[a].num_children }

\* add_detection_option_tree(sc, node): the equal sub-tree the table holds,
\* or null after the node has been put into the table.
add_detection_option_tree(table, ns, node) ==
    LET equal == { k \in DOMAIN table : tree_equal(ns, table[k], node) } IN
    IF equal = {}
    THEN [table |-> Append(table, node), dup_node |-> 0]
    ELSE [table |-> table, dup_node |-> table[CHOOSE k \in equal : \A j \in equal : k <= j]]

\* free_detection_option_tree(node): the node and all below it.
free_detection_option_tree(ns, node) == subtree(ns, node)

\* replace_child that keeps the root's own child.
replace_child_keep(root, i, dup_node) == root

\* root->children[i] = dup_node
replace_child(root, i, dup_node) == [root EXCEPT !.children[i] = dup_node]

\* The loop of finalize_detection_option_tree from child i on; f holds the
\* root, the hash table and the freed nodes.
RECURSIVE finalize_children(_, _, _)
finalize_children(f, ns, i) ==
    IF i > f.root.num_children
    THEN f
    ELSE LET node == f.root.children[i]
             r == add_detection_option_tree(f.table, ns, node)
         IN  IF r.dup_node # 0
             THEN finalize_children(
                    [root |-> replace_child(f.root, i, r.dup_node),
                     table |-> r.table,
                     freed |-> f.freed \cup free_detection_option_tree(ns, node)],
                    ns, i + 1)
             ELSE finalize_children([f EXCEPT !.table = r.table], ns, i + 1)

\* finalize_detection_option_tree(sc, root); a null root is left alone.
finalize_detection_option_tree(table, ns, freed_, root) ==
    IF root = NoRoot
    THEN [root |-> root, table |-> table, freed |-> freed_]
    ELSE finalize_children([root |-> root, table |-> table, freed |-> freed_], ns, 1)

(***************************************************************************)
(* Actions on the detection option trees                                   *)
(***************************************************************************)

RECURSIVE SumLen(_, _)
SumLen(f, S) ==
    IF S = {} THEN 0
    ELSE LET t == CHOOSE x \in S : TRUE IN Len(f[t]) + SumLen(f, S \ {t})

\* Number of otn_create_tree calls so far.
InsertCount == SumLen(inserted, Trees)

\* pmx_create_tree(sc, pmx, existing_tree, mpse_type) for the pattern state
\* t and a PMX of rule otn: the MPSE hands the rule to the tree.
PmxCreateTree ==
    /\ UNCHANGED << hpack_vars, pg_vars, fin_vars, build_vars >>
    /\ \E t \in Trees \ finalized, otn \in OtnIds :
         LET r == otn_create_tree(nodes, roots[t], otn, TreeType(t)) IN
            /\ InsertCount < MaxInserts
            /\ nodes' = r.nodes
            /\ roots' = [roots EXCEPT ![t] = r.root]
            /\ inserted' = [inserted EXCEPT ![t] = Append(@, otn)]
            /\ last_insert' = [tree |-> t, otn |-> otn,
                               new_inner |-> r.new_inner, new_leaf |-> r.new_leaf]
    /\ UNCHANGED << detection_option_tree_hash_table, freed_nodes, finalized >>

\* pmx_create_tree(sc, nullptr, existing_tree, mpse_type): the last call for
\* the pattern state t.
PmxFinalizeTree ==
    /\ UNCHANGED << hpack_vars, pg_vars, fin_vars, build_vars >>
    /\ \E t \in Trees \ finalized :
         LET f == finalize_detection_option_tree(
                     detection_option_tree_hash_table, nodes, freed_nodes, roots[t])
         IN /\ roots' = [roots EXCEPT ![t] = f.root]
            /\ detection_option_tree_hash_table' = f.table
            /\ freed_nodes' = f.freed
            /\ finalized' = finalized \cup {t}
    /\ UNCHANGED << nodes, inserted, last_insert >>

DotNext == PmxCreateTree \/ PmxFinalizeTree

\* The HPACK table stays as constructed with the largest size.
InitDot ==
    /\ HpackInit /\ max_size = MaxTableSize
    /\ DotInit
    /\ PgInit /\ offload_search_api = "none"
    /\ FinIdle /\ BuildIdle

SpecDot == InitDot /\ [][DotNext]_vars


(***************************************************************************)
(* fpAddPortGroupRule                                                      *)
(***************************************************************************)

\* The port group and the statics the per-rule adder works on.
Build ==
    [mpsegrp |-> mpsegrp, nfp_head |-> nfp_head,
     nfp_rule_count |-> nfp_rule_count, rule_count |-> rule_count,
     mpse_count |-> mpse_count, offload_mpse_count |-> offload_mpse_count,
     parse_errors |-> parse_errors,
     num_patterns_truncated |-> num_patterns_truncated, otn_meta |-> otn_meta]

\* pg->add_nfp_rule(otn): the rule goes to the end of the list.
add_nfp_rule(b, otn) ==
    [b EXCEPT !.nfp_head = Append(@, otn), !.nfp_rule_count = @ + 1]

\* pg->add_rule()
add_rule(b) == [b EXCEPT !.rule_count = @ + 1]

\* fp->set_max(bytes): the length is capped at the configured maximum, and
\* a pattern the cap bites is counted.
set_max(max, bytes) ==
    IF bytes > max
    THEN [bytes |-> max, truncated |-> 1]
    ELSE [bytes |-> bytes, truncated |-> 0]

\* fpGetFinalPattern that caps a negated pattern or a regular expression
\* like any other.
fpGetFinalPattern_cap_all(max, pmd) ==
    [pattern |-> 0, bytes |-> set_max(max, pmd.pattern_size).bytes,
     truncated |-> set_max(max, pmd.pattern_size).truncated, ret |-> 0]

\* fpGetFinalPattern(fp, pmd, ret_pattern, ret_bytes): ret_pattern as an
\* offset into pmd->pattern_buf, ret_bytes, and by how much
\* num_patterns_truncated grows.  The value returned is always 0.
fpGetFinalPattern(max, pmd) ==
    IF pmd.negated \/ ~pmd.is_literal
    THEN [pattern |-> 0, bytes |-> pmd.pattern_size, truncated |-> 0, ret |-> 0]
    ELSE LET slice == pmd.fast_pattern /\ (pmd.fp_offset # 0 \/ pmd.fp_length # 0)
             pattern == IF slice THEN pmd.fp_offset ELSE 0
             bytes == IF ~slice THEN pmd.pattern_size
                      ELSE IF pmd.fp_length # 0 THEN pmd.fp_length
                      ELSE pmd.pattern_size - pmd.fp_length
         IN  [pattern |-> pattern, bytes |-> set_max(max, bytes).bytes,
              truncated |-> set_max(max, bytes).truncated, ret |-> 0]

\* Lines 436-445: the bytes handed to add_pattern.
inserted_pattern(pmd, get_final_pat) ==
    IF get_final_pat
    THEN fpGetFinalPattern(max_pattern_len, pmd)
    ELSE [pattern |-> 0, bytes |-> pmd.pattern_size, truncated |-> 0]

\* fpFinishPortGroupRule that puts every pattern through the final
\* transform.
fpFinishPortGroupRule_always_final(mpse, otn, pmd, get_final_pat) ==
    [mpse EXCEPT !.patterns =
        Append(@, [otn |-> otn, pmd |-> pmd,
                   pattern |-> inserted_pattern(pmd, TRUE).pattern,
                   bytes |-> inserted_pattern(pmd, TRUE).bytes])]

\* fpFinishPortGroupRule(mpse, otn, pmd, fp, get_final_pat): the pattern is
\* added to the MPSE with a PMX for the rule and the pattern data.
fpFinishPortGroupRule(mpse, otn, pmd, get_final_pat) ==
    [mpse EXCEPT !.patterns =
        Append(@, [otn |-> otn, pmd |-> pmd,
                   pattern |-> inserted_pattern(pmd, get_final_pat).pattern,
                   bytes |-> inserted_pattern(pmd, get_final_pat).bytes])]

\* for (auto p : pmv) fpAddAlternatePatterns(mpse, otn, p, fp), from the
\* k-th alternate on.
RECURSIVE fpAddAlternatePatterns(_, _, _, _)
fpAddAlternatePatterns(mpse, otn, pmv, k) ==
    IF k > Len(pmv) THEN mpse
    ELSE fpAddAlternatePatterns(
            fpFinishPortGroupRule(mpse, otn, pmv[k], FALSE), otn, pmv, k + 1)

\* Line 588: an offload api is configured and is not the normal one.
offload_differs(api) == api # "none" /\ api # search_api

\* The offload selection, empty when no other api is configured.
offload_selection(api, otn) ==
    IF offload_differs(api)
    THEN get_fp_content(otn, ~is_regex_capable(api)).pmv
    ELSE << >>

\* cont that lets the rule into the normal MPSE whatever the offload
\* selection is.
continue_to_mpse_always(api, pmv_ol) == TRUE

\* Lines 581-600: cont is cleared when the other api selects nothing.
continue_to_mpse(api, pmv_ol) == ~offload_differs(api) \/ pmv_ol # << >>

\* Lines 660-680 and 683-704: the main pattern goes through the final
\* transform, the alternates go in as they are, and the rule's metadata is
\* updated.
add_patterns(mpse, otn, main, alts) ==
    fpAddAlternatePatterns(fpFinishPortGroupRule(mpse, otn, main, TRUE), otn, alts, 1)

longest(meta, pmd) ==
    IF pmd.pattern_size > meta.longestPatternLen
    THEN [meta EXCEPT !.longestPatternLen = pmd.pattern_size]
    ELSE meta

record_normal(meta, otn, pmd) ==
    IF make_fast_pattern_only(otn, pmd, MPSE_TYPE_NORMAL)
    THEN [longest(meta, pmd) EXCEPT !.normal_fp_only = pmd.opt]
    ELSE longest(meta, pmd)

record_offload(meta, otn, pmd) ==
    IF make_fast_pattern_only(otn, pmd, MPSE_TYPE_OFFLOAD)
    THEN [longest(meta, pmd) EXCEPT !.offload_fp_only = pmd.opt]
    ELSE longest(meta, pmd)

\* rule_list that only counts the rule.
rule_list_count_only(b, otn, add_rule_, add_nfp_rule_) ==
    IF add_rule_ THEN add_rule(b) ELSE b

\* Lines 706-715
rule_list(b, otn, add_rule_, add_nfp_rule_) ==
    IF add_rule_
    THEN IF ~add_nfp_rule_ THEN add_rule(b) ELSE add_nfp_rule(b, otn)
    ELSE b

\* Lines 657-716: the patterns are added to the MPSEs the group has.
add_to_mpses(b, otn, t, main, alts, add_to_offload, pmv_ol) ==
    LET has_normal == b.mpsegrp[t].normal_mpse.exists
        has_offload == add_to_offload /\ b.mpsegrp[t].offload_mpse.exists
        ol_pmd == pmv_ol[Len(pmv_ol)]
        alts_ol == SubSeq(pmv_ol, 1, Len(pmv_ol) - 1)
        b1 == IF has_normal
              THEN [b EXCEPT
                      !.mpsegrp[t].normal_mpse = add_patterns(@, otn, main, alts),
                      !.num_patterns_truncated =
                          @ + inserted_pattern(main, TRUE).truncated,
                      !.otn_meta[otn] = record_normal(@, otn, main)]
              ELSE b
        b2 == IF has_offload
              THEN [b1 EXCEPT
                      !.mpsegrp[t].offload_mpse = add_patterns(@, otn, ol_pmd, alts_ol),
                      !.num_patterns_truncated =
                          @ + inserted_pattern(ol_pmd, TRUE).truncated,
                      !.otn_meta[otn] = record_offload(@, otn, ol_pmd)]
              ELSE b1
        add_rule_ == has_normal \/ has_offload
        add_nfp_rule_ == \/ has_normal /\ main.negated
                         \/ has_offload /\ ol_pmd.negated
    IN  rule_list(b2, otn, add_rule_, add_nfp_rule_)

\* "Failed to create normal pattern matcher for %d" and its offload twin.
ParseErrorMessage(mpse_type, pm_type) == [matcher |-> mpse_type, pm_type |-> pm_type]

\* creation_failed that lists the rule as one without fast pattern.
creation_failed_listed(b, otn, mpse_type, pm_type) ==
    [b |-> add_nfp_rule(
              [b EXCEPT !.parse_errors =
                          Append(@, ParseErrorMessage(mpse_type, pm_type))], otn),
     ret |-> -1]

\* Lines 619-623 and 644-649: the MPSE could not be made.
creation_failed(b, otn, mpse_type, pm_type) ==
    [b |-> [b EXCEPT !.parse_errors =
                       Append(@, ParseErrorMessage(mpse_type, pm_type))],
     ret |-> -1]

\* Lines 603-717: the MPSEs the rule needs are made, each counted once; a
\* failure to make one is a parse error and ends the call with -1.
create_and_add(b, otn, pmv, add_to_offload, pmv_ol, create_normal, create_offload) ==
    LET main == pmv[Len(pmv)]
        alts == SubSeq(pmv, 1, Len(pmv) - 1)
        t == main.pm_type
        b1 == IF ~b.mpsegrp[t].exists
              THEN [b EXCEPT !.mpsegrp[t] = NewMpseGroup]
              ELSE b
        need_normal == ~b1.mpsegrp[t].normal_mpse.exists
        b2 == IF need_normal
              THEN [b1 EXCEPT
                      !.mpsegrp[t].normal_mpse = [NewMpse EXCEPT !.opt = search_opt],
                      !.mpse_count = @ + 1]
              ELSE b1
        need_offload == add_to_offload /\ ~b2.mpsegrp[t].offload_mpse.exists
        b3 == IF need_offload
              THEN [b2 EXCEPT
                      !.mpsegrp[t].offload_mpse = [NewMpse EXCEPT !.opt = search_opt],
                      !.offload_mpse_count = @ + 1]
              ELSE b2
    IN  IF need_normal /\ ~create_normal
        THEN creation_failed(b1, otn, MPSE_TYPE_NORMAL, t)
        ELSE IF need_offload /\ ~create_offload
        THEN creation_failed(b2, otn, MPSE_TYPE_OFFLOAD, t)
        ELSE [b |-> add_to_mpses(b3, otn, t, main, alts, add_to_offload, pmv_ol),
              ret |-> 0]

\* no_fast_pattern that does not look at exclude.
no_fast_pattern_always(b, otn, exclude) == add_nfp_rule(b, otn)

\* Lines 720-727
no_fast_pattern(b, otn, exclude) ==
    IF exclude THEN b ELSE add_nfp_rule(b, otn)

\* fpAddPortGroupRule that counts a builtin rule in the group and puts a
\* rule enabled nowhere on the no-fast-pattern list.
fpAddPortGroupRule_skipped_counted(b, api, otn, create_normal, create_offload) ==
    IF builtin(otn) THEN [b |-> add_rule(b), ret |-> -1]
    ELSE IF ~enabled_somewhere(otn) THEN [b |-> add_nfp_rule(b, otn), ret |-> -1]
    ELSE LET sel == get_fp_content(otn, ~is_regex_capable(search_api))
             pmv_ol == offload_selection(api, otn)
             add_to_offload == offload_differs(api) /\ pmv_ol # << >>
         IN  IF sel.pmv # << >> /\ continue_to_mpse(api, pmv_ol)
             THEN create_and_add(b, otn, sel.pmv, add_to_offload, pmv_ol,
                                 create_normal, create_offload)
             ELSE [b |-> no_fast_pattern(b, otn, sel.exclude), ret |-> 0]

\* fpAddPortGroupRule(sc, pg, otn, fp, false); create_normal and
\* create_offload are what create_normal_mpse and create_offload_mpse
\* return if they are called.
fpAddPortGroupRule(b, api, otn, create_normal, create_offload) ==
    IF builtin(otn) THEN [b |-> b, ret |-> -1]
    ELSE IF ~enabled_somewhere(otn) THEN [b |-> b, ret |-> -1]
    ELSE LET sel == get_fp_content(otn, ~is_regex_capable(search_api))
             pmv_ol == offload_selection(api, otn)
             add_to_offload == offload_differs(api) /\ pmv_ol # << >>
         IN  IF sel.pmv # << >> /\ continue_to_mpse(api, pmv_ol)
             THEN create_and_add(b, otn, sel.pmv, add_to_offload, pmv_ol,
                                 create_normal, create_offload)
             ELSE [b |-> no_fast_pattern(b, otn, sel.exclude), ret |-> 0]

(***************************************************************************)
(* fpFinishPortGroup and the compilation of the MPSEs                      *)
(***************************************************************************)

\* finish_mpse that leaves an MPSE without patterns where it is.
finish_mpse_keep_empty(mpse) ==
    IF ~mpse.exists THEN mpse
    ELSE IF Len(mpse.patterns) # 0 THEN [mpse EXCEPT !.queued = TRUE]
    ELSE mpse

\* Lines 479-495 and 496-512: an MPSE with patterns is queued for
\* compilation, one without is deleted.
finish_mpse(mpse) ==
    IF ~mpse.exists THEN mpse
    ELSE IF Len(mpse.patterns) # 0 THEN [mpse EXCEPT !.queued = TRUE]
    ELSE NullMpse

\* Lines 477-520
finish_group(g) ==
    IF ~g.exists THEN g
    ELSE LET g1 == [g EXCEPT !.normal_mpse = finish_mpse(@),
                             !.offload_mpse = finish_mpse(@)]
         IN  IF ~g1.normal_mpse.exists /\ ~g1.offload_mpse.exists
             THEN NullMpseGroup
             ELSE g1

\* build_nfp_tree that puts in the first rule of the list only.
RECURSIVE build_nfp_tree_first_only(_, _, _, _)
build_nfp_tree_first_only(ns, root, list, k) ==
    IF k > Len(list) \/ k > 1 THEN [nodes |-> ns, root |-> root]
    ELSE LET r == otn_create_tree(ns, root, list[k], MPSE_TYPE_NORMAL)
         IN  build_nfp_tree_first_only(r.nodes, r.root, list, k + 1)

\* Lines 527-531: every rule of the list, from the k-th on, is put into the
\* no-fast-pattern tree.
RECURSIVE build_nfp_tree(_, _, _, _)
build_nfp_tree(ns, root, list, k) ==
    IF k > Len(list) THEN [nodes |-> ns, root |-> root]
    ELSE LET r == otn_create_tree(ns, root, list[k], MPSE_TYPE_NORMAL)
         IN  build_nfp_tree(r.nodes, r.root, list, k + 1)

\* fpFinishPortGroup that reports success for a group without an MPSE and
\* without a no-fast-pattern rule.
fpFinishPortGroup_keep_always(grp, list, tree, ns, table, freed_) ==
    LET grp1 == [t \in PmTypes |-> finish_group(grp[t])]
        finalized_(g, built, f) ==
            [mpsegrp |-> g, nfp_head |-> << >>, nfp_tree |-> f.root,
             nodes |-> built.nodes, table |-> f.table, freed |-> f.freed,
             ret |-> 0]
        built_(g, built) ==
            finalized_(g, built,
                       finalize_detection_option_tree(table, built.nodes, freed_,
                                                      built.root))
    IN  IF list # << >>
        THEN built_(grp1, build_nfp_tree(ns, tree, list, 1))
        ELSE [mpsegrp |-> grp1, nfp_head |-> list, nfp_tree |-> tree,
              nodes |-> ns, table |-> table, freed |-> freed_,
              ret |-> 0]

\* fpFinishPortGroup(sc, pg, fp) for a group and a configuration that
\* exist: the group after the call, the heap, the hash table and the freed
\* nodes, and the value returned.
fpFinishPortGroup(grp, list, tree, ns, table, freed_) ==
    LET grp1 == [t \in PmTypes |-> finish_group(grp[t])]
        queued == \E t \in PmTypes :
                     grp1[t].normal_mpse.queued \/ grp1[t].offload_mpse.queued
        finalized_(g, built, f) ==
            [mpsegrp |-> g, nfp_head |-> << >>, nfp_tree |-> f.root,
             nodes |-> built.nodes, table |-> f.table, freed |-> f.freed,
             ret |-> 0]
        built_(g, built) ==
            finalized_(g, built,
                       finalize_detection_option_tree(table, built.nodes, freed_,
                                                      built.root))
    IN  IF list # << >>
        THEN built_(grp1, build_nfp_tree(ns, tree, list, 1))
        ELSE [mpsegrp |-> grp1, nfp_head |-> list, nfp_tree |-> tree,
              nodes |-> ns, table |-> table, freed |-> freed_,
              ret |-> IF queued THEN 0 ELSE -1]

\* The MPSE hands every PMX of its patterns, from the k-th on, to the
\* create_tree callback of its agent.
RECURSIVE compile_patterns(_, _, _, _, _)
compile_patterns(ns, root, patterns, k, mpse_type) ==
    IF k > Len(patterns) THEN [nodes |-> ns, root |-> root]
    ELSE LET r == otn_create_tree(ns, root, patterns[k].otn, mpse_type)
         IN  compile_patterns(r.nodes, r.root, patterns, k + 1, mpse_type)

\* Compilation of one MPSE: a tree of its patterns' rules, then the last
\* create_tree call with a null id.
compile_mpse(mpse, ns, table, freed_, mpse_type) ==
    LET finalized_(built, f) ==
            [mpse |-> [mpse EXCEPT !.tree = f.root, !.compiled = TRUE],
             nodes |-> built.nodes, table |-> f.table, freed |-> f.freed]
        built_(built) ==
            finalized_(built,
                       finalize_detection_option_tree(table, built.nodes, freed_,
                                                      built.root))
    IN  built_(compile_patterns(ns, mpse.tree, mpse.patterns, 1, mpse_type))

(***************************************************************************)
(* Actions on the port group                                               *)
(***************************************************************************)

Handed == { handed[i] : i \in 1 .. Len(handed) }

\* One pass of the loop of fpCreatePortObject2PortGroup over the rules of
\* the port object: a rule of a network protocol goes to the per-rule adder.
PortObjectRule ==
    /\ po_group = "unset"
    /\ Len(handed) < MaxRules
    /\ \E otn \in OtnIds \ Handed, create_normal \in BOOLEAN, create_offload \in BOOLEAN :
         LET r == IF is_network_protocol(otn)
                  THEN fpAddPortGroupRule(Build, offload_search_api, otn,
                                          create_normal, create_offload)
                  ELSE [b |-> Build, ret |-> 0]
         IN /\ handed' = Append(handed, otn)
            /\ mpsegrp' = r.b.mpsegrp
            /\ nfp_head' = r.b.nfp_head
            /\ nfp_rule_count' = r.b.nfp_rule_count
            /\ rule_count' = r.b.rule_count
            /\ mpse_count' = r.b.mpse_count
            /\ offload_mpse_count' = r.b.offload_mpse_count
            /\ parse_errors' = r.b.parse_errors
            /\ num_patterns_truncated' = r.b.num_patterns_truncated
            /\ otn_meta' = r.b.otn_meta
            /\ last_add' = IF is_network_protocol(otn)
                           THEN [otn |-> otn, ret |-> r.ret]
                           ELSE last_add
            /\ create_failed' = IF r.b.parse_errors # parse_errors
                                THEN create_failed \cup {otn}
                                ELSE create_failed
    /\ UNCHANGED << offload_search_api, nfp_tree, po_group >>
    /\ UNCHANGED << hpack_vars, dot_vars, fin_vars, build_vars >>

\* The end of fpCreatePortObject2PortGroup: fpFinishPortGroup, and the group
\* is given to the port object unless it was freed.
FinishPortGroup ==
    /\ po_group = "unset"
    /\ handed # << >>
    /\ \E r \in { fpFinishPortGroup(mpsegrp, nfp_head, nfp_tree, nodes,
                                     detection_option_tree_hash_table, freed_nodes) } :
          /\ mpsegrp' = r.mpsegrp
          /\ nfp_head' = r.nfp_head
          /\ nfp_tree' = r.nfp_tree
          /\ nodes' = r.nodes
          /\ detection_option_tree_hash_table' = r.table
          /\ freed_nodes' = r.freed
          /\ po_group' = IF r.ret # 0 THEN "null" ELSE "pg"
    /\ UNCHANGED << offload_search_api, nfp_rule_count, rule_count, mpse_count,
                    offload_mpse_count, parse_errors, num_patterns_truncated,
                    otn_meta, handed, last_add, create_failed >>
    /\ UNCHANGED << roots, finalized, inserted, last_insert >>
    /\ UNCHANGED << hpack_vars, fin_vars, build_vars >>

\* A queued MPSE of the group is compiled.
CompileMpse ==
    /\ po_group = "pg"
    /\ \E t \in PmTypes :
          \/ /\ mpsegrp[t].normal_mpse.queued
             /\ ~mpsegrp[t].normal_mpse.compiled
             /\ \E r \in { compile_mpse(mpsegrp[t].normal_mpse, nodes,
                            detection_option_tree_hash_table, freed_nodes,
                            MPSE_TYPE_NORMAL) } :
                   /\ mpsegrp' = [mpsegrp EXCEPT ![t].normal_mpse = r.mpse]
                   /\ nodes' = r.nodes
                   /\ detection_option_tree_hash_table' = r.table
                   /\ freed_nodes' = r.freed
          \/ /\ mpsegrp[t].offload_mpse.queued
             /\ ~mpsegrp[t].offload_mpse.compiled
             /\ \E r \in { compile_mpse(mpsegrp[t].offload_mpse, nodes,
                            detection_option_tree_hash_table, freed_nodes,
                            MPSE_TYPE_OFFLOAD) } :
                   /\ mpsegrp' = [mpsegrp EXCEPT ![t].offload_mpse = r.mpse]
                   /\ nodes' = r.nodes
                   /\ detection_option_tree_hash_table' = r.table
                   /\ freed_nodes' = r.freed
    /\ UNCHANGED << offload_search_api, nfp_head, nfp_rule_count, rule_count,
                    nfp_tree, mpse_count, offload_mpse_count, parse_errors,
                    num_patterns_truncated, otn_meta, po_group, handed, last_add,
                    create_failed >>
    /\ UNCHANGED << roots, finalized, inserted, last_insert >>
    /\ UNCHANGED << hpack_vars, fin_vars, build_vars >>

GroupNext == PortObjectRule \/ FinishPortGroup \/ CompileMpse

\* A port group is built under any of the offload configurations.
InitGroup ==
    /\ HpackInit /\ max_size = MaxTableSize
    /\ DotInit
    /\ PgInit
    /\ offload_search_api \in OffloadApis
    /\ FinIdle /\ BuildIdle

SpecGroup == InitGroup /\ [][GroupNext]_vars

(***************************************************************************)
(* fpGetFinalPattern on its own                                            *)
(***************************************************************************)

\* The longest pattern_buf handed in.
MaxPatternSize == 4

\* The patterns the parser lets through: fp_offset + fp_length is no more
\* than pattern_size (line 952).
FinalPmds ==
    UNION { UNION { { [ FastPattern(Pmd(1, size, PM_TYPE_PKT, negated), off, len)
                          EXCEPT !.is_literal = literal, !.fast_pattern = fast ] :
                        negated \in BOOLEAN, literal \in BOOLEAN, fast \in BOOLEAN,
                        len \in 0 .. (size - off) } :
                    off \in 0 .. size } :
            size \in 1 .. MaxPatternSize }

\* The call: ret_pattern and ret_bytes are set, and set_max counts a
\* pattern it cuts.
GetFinalPattern ==
    /\ final_ret = NoFinal
    /\ \E r \in { fpGetFinalPattern(final_max, final_pmd) } :
          /\ final_ret' = [pattern |-> r.pattern, bytes |-> r.bytes, ret |-> r.ret]
          /\ num_patterns_truncated' = num_patterns_truncated + r.truncated
    /\ UNCHANGED << final_pmd, final_max >>
    /\ UNCHANGED << offload_search_api, mpsegrp, nfp_head, nfp_rule_count,
                    rule_count, nfp_tree, mpse_count, offload_mpse_count,
                    parse_errors, otn_meta, po_group, handed, last_add,
                    create_failed >>
    /\ UNCHANGED << hpack_vars, dot_vars, build_vars >>

InitFinalPattern ==
    /\ HpackInit /\ max_size = MaxTableSize
    /\ DotInit
    /\ PgInit /\ offload_search_api = "none"
    /\ final_pmd \in FinalPmds
    /\ final_max \in 1 .. MaxPatternSize
    /\ final_ret = NoFinal
    /\ BuildIdle

SpecFinalPattern == InitFinalPattern /\ [][GetFinalPattern]_vars

\* C23: for a pattern that is negated or no literal, fpGetFinalPattern gives
\* back pattern_buf from its start with pattern_size bytes, whatever
\* fp_offset, fp_length and the maximum are, counts no truncated pattern and
\* returns 0.
C23_NegatedOrRegexVerbatim ==
    final_ret # NoFinal /\ (final_pmd.negated \/ ~final_pmd.is_literal) =>
       /\ final_ret.pattern = 0
       /\ final_ret.bytes = final_pmd.pattern_size
       /\ final_ret.ret = 0
       /\ num_patterns_truncated = 0

\* The call was made for a negated pattern or a regular expression that asks
\* for a slice longer than the maximum.
C23_Witness ==
    /\ final_ret # NoFinal
    /\ final_pmd.negated \/ ~final_pmd.is_literal
    /\ final_pmd.fast_pattern
    /\ final_pmd.fp_offset > 0 /\ final_pmd.fp_length > 0
    /\ final_pmd.fp_length > final_max
    /\ final_ret.bytes > final_max

(***************************************************************************)
(* fpCreateFastPacketDetection: port tables, rule maps, service groups     *)
(***************************************************************************)

\* The ports of the port objects.
MaxPort == 2

Ports == 1 .. MaxPort

\* The compile threads of a parallel compilation, and the MPSEs whose
\* compilation may fail in one build.
MaxThreads == 2

MaxCompileFailures == 1

\* The protocols of RulePortTables in the order fpCreatePortGroups and
\* fpCreateRuleMaps walk them; svc_any has an any-port object only.
Protocols == << "ip", "icmp", "tcp", "udp" >>

SVC_ANY == "svc_any"

\* The pattern matcher types in the order of the loop of fpFinishPortGroup.
PmTypeOrder == << PM_TYPE_PKT, PM_TYPE_KEY >>

\* A PortObject2 of a port table (for an any-port object, its PortObject2Dup):
\* its ports, its reference count, its rules, and its PortGroup by allocation
\* number, 0 for a null pointer.
PortObject2(ports, port_cnt, has_rule_hash, rules) ==
    [ports |-> ports, port_cnt |-> port_cnt, has_rule_hash |-> has_rule_hash,
     rule_hash |-> rules, group |-> 0]

\* A null PortObject2 pointer.
NullPortObject2 ==
    [ports |-> {}, port_cnt |-> 0, has_rule_hash |-> FALSE, rule_hash |-> << >>,
     group |-> 0]

\* The port tables of one protocol: no port object but any, and it has no
\* rule.
NoPortTable ==
    [src |-> << >>, dst |-> << >>,
     any |-> PortObject2(Ports, 1, TRUE, << >>)]

\* Source objects with a content rule and a file rule, and with a builtin
\* rule only; a destination object on every port with a negated pattern;
\* an any-port rule without a fast pattern.
PortTableA ==
    [src |-> << PortObject2({1}, 1, TRUE, << 1, 10 >>),
                PortObject2({MaxPort}, 1, TRUE, << 7 >>) >>,
     dst |-> << PortObject2(Ports, 1, TRUE, << 3 >>) >>,
     any |-> PortObject2(Ports, 1, TRUE, << 4 >>)]

\* A source object nothing refers to and one without a rule hash;
\* destination objects with a regular expression as main pattern and with an
\* excluded rule only; an any-port rule with a regular expression.
PortTableB ==
    [src |-> << PortObject2({1}, 0, TRUE, << 6 >>),
                PortObject2({MaxPort}, 1, FALSE, << >>) >>,
     dst |-> << PortObject2({1}, 1, TRUE, << 2 >>),
                PortObject2({MaxPort}, 1, TRUE, << 9 >>) >>,
     any |-> PortObject2(Ports, 1, TRUE, << 8 >>)]

\* sc->port_tables: at most one protocol has port objects and rules.
PortTableChoices ==
    { [p \in { Protocols[i] : i \in 1 .. Len(Protocols) } \cup { SVC_ANY } |->
          IF p = q THEN t ELSE NoPortTable] :
      q \in { Protocols[i] : i \in 1 .. Len(Protocols) } \cup { "none" },
      t \in { PortTableA, PortTableB } }

\* sc->srmmTable as fpCreateServiceMaps leaves it: per direction, the
\* services in the order of the hash walk, each with its list of rules.
ServiceRules(srvc, list) == [srvc |-> srvc, list |-> list]

ServiceMapChoices ==
    { [to_srv |-> << ServiceRules("http", << 1, 4 >>) >>,
       to_cli |-> << ServiceRules("http", << 3 >>) >>],
      [to_srv |-> << ServiceRules("http", << 6 >>),
                     ServiceRules("ftp", << 10 >>) >>,
       to_cli |-> << ServiceRules("http", << 9 >>) >>] }

Services == { "http", "ftp" }

\* The port objects in the order fpCreatePortGroups reaches them: per
\* protocol the source table, the destination table, the any-port object;
\* then svc_any.
TableWork(p) ==
    [i \in 1 .. Len(port_tables[p].src) |-> << p, "src", i >>]
    \o [i \in 1 .. Len(port_tables[p].dst) |-> << p, "dst", i >>]
    \o << << p, "any", 0 >> >>

PortWork ==
    TableWork(Protocols[1]) \o TableWork(Protocols[2])
    \o TableWork(Protocols[3]) \o TableWork(Protocols[4])
    \o << << SVC_ANY, "any", 0 >> >>

\* The services in the order fpCreateServiceMapPortGroups reaches them.
ServiceWork ==
    [i \in 1 .. Len(srmmTable.to_srv) |-> << "to_srv", i >>]
    \o [i \in 1 .. Len(srmmTable.to_cli) |-> << "to_cli", i >>]

\* PortGroup::alloc() with the statics of the file.
NewPortGroup ==
    [mpsegrp |-> [t \in PmTypes |-> NullMpseGroup], nfp_head |-> << >>,
     nfp_rule_count |-> 0, rule_count |-> 0,
     mpse_count |-> mpse_count, offload_mpse_count |-> offload_mpse_count,
     parse_errors |-> parse_errors,
     num_patterns_truncated |-> num_patterns_truncated, otn_meta |-> otn_meta]

\* The loops over the rules of a port object (lines 1039-1056) and of a
\* service (lines 1246-1251), from the k-th rule on: a port group takes the
\* rules of network protocols only.
RECURSIVE add_rules(_, _, _, _, _, _)
add_rules(b, api, can_offload, rules, k, srvc) ==
    IF k > Len(rules) THEN b
    ELSE IF ~srvc /\ ~is_network_protocol(rules[k])
    THEN add_rules(b, api, can_offload, rules, k + 1, srvc)
    ELSE add_rules(fpAddPortGroupRule(b, api, rules[k], TRUE, can_offload).b,
                   api, can_offload, rules, k + 1, srvc)

\* fp->get_split_any_any() ? nullptr : po2
add_any_any_never(split, po2) == NullPortObject2

add_any_any(split, po2) == IF split THEN NullPortObject2 ELSE po2

\* The rules the while loop of fpCreatePortObject2PortGroup walks: those of
\* po, then those of poaa unless it is null.
walked_rules(po, poaa) ==
    IF poaa = NullPortObject2 THEN po.rule_hash
    ELSE po.rule_hash \o poaa.rule_hash

\* The rules are added to a new group and fpFinishPortGroup is called: the
\* group and the statics before the call, and what the call gives.
finish_new_group(b, ns, table, freed_) ==
    [b |-> b,
     fin |-> fpFinishPortGroup(b.mpsegrp, b.nfp_head, NoRoot, ns, table, freed_)]

build_group(api, can_offload, rules, srvc, ns, table, freed_) ==
    finish_new_group(add_rules(NewPortGroup, api, can_offload, rules, 1, srvc),
                     ns, table, freed_)

\* queue_mpse: the MPSEs of a group fpFinishPortGroup queues, each named by
\* the group, the pattern matcher type and the kind of MPSE.
queued_of_normal_only(id, grp, t) ==
    IF grp[t].normal_mpse.queued THEN << << id, t, MPSE_TYPE_NORMAL >> >>
    ELSE << >>

queued_of(id, grp, t) ==
    (IF grp[t].normal_mpse.queued THEN << << id, t, MPSE_TYPE_NORMAL >> >>
     ELSE << >>)
    \o (IF grp[t].offload_mpse.queued THEN << << id, t, MPSE_TYPE_OFFLOAD >> >>
        ELSE << >>)

queued_mpses(id, grp) ==
    queued_of(id, grp, PmTypeOrder[1]) \o queued_of(id, grp, PmTypeOrder[2])

\* The message of line 1289 and the message of line 1622.
ServiceErrorMessage(srvc) == [no_port_group_for |-> srvc]

CompileErrorMessage(n) == [failed_to_compile |-> n]

\* The PortGroup object: the owner it was built for, the rules the loops
\* walked, the group when fpFinishPortGroup was called and when it
\* returned, whether it was freed, and the parse errors recorded while it
\* was built.
PortGroup(owner, walked, r, errors) ==
    [owner |-> owner, walked |-> walked,
     mpsegrp_added |-> r.b.mpsegrp, nfp_head_added |-> r.b.nfp_head,
     mpsegrp |-> r.fin.mpsegrp, nfp_tree |-> r.fin.nfp_tree,
     nfp_rule_count |-> r.b.nfp_rule_count, rule_count |-> r.b.rule_count,
     freed |-> r.fin.ret # 0, errors |-> errors]

\* The part of the state a new group changes, whoever owns it.
GroupBuilt(owner, walked, r, more_errors) ==
    /\ groups' = Append(groups,
                        PortGroup(owner, walked, r,
                                  Len(r.b.parse_errors) + Len(more_errors)
                                  - Len(parse_errors)))
    /\ s_tbd' = s_tbd \o queued_mpses(Len(groups) + 1, r.fin.mpsegrp)
    /\ mpse_count' = r.b.mpse_count
    /\ offload_mpse_count' = r.b.offload_mpse_count
    /\ parse_errors' = r.b.parse_errors \o more_errors
    /\ num_patterns_truncated' = r.b.num_patterns_truncated
    /\ otn_meta' = r.b.otn_meta
    /\ nodes' = r.fin.nodes
    /\ detection_option_tree_hash_table' = r.fin.table
    /\ freed_nodes' = r.fin.freed

NoGroupBuilt ==
    UNCHANGED << groups, s_tbd, mpse_count, offload_mpse_count, parse_errors,
                 num_patterns_truncated, otn_meta, nodes,
                 detection_option_tree_hash_table, freed_nodes >>

\* What no step of the build changes.
BuildFrame ==
    UNCHANGED << hpack_vars, fin_vars, roots, finalized, inserted, last_insert,
                 offload_search_api, mpsegrp, nfp_head, nfp_rule_count,
                 rule_count, nfp_tree, po_group, handed, last_add,
                 create_failed, split_any_any, create_offload_mpse, srmmTable,
                 fixup_call >>

CompileFrame ==
    UNCHANGED << mt_query, build_mt, started, running, compiled, fixup_done >>

\* The position after the k-th port object, and after the k-th service.
AfterPortObject(k) ==
    IF k < Len(PortWork) THEN [phase |-> "ports", k |-> k + 1]
    ELSE [phase |-> "rule_maps", k |-> 0]

AfterService(k) ==
    IF k < Len(ServiceWork) THEN [phase |-> "services", k |-> k + 1]
    ELSE [phase |-> "compile", k |-> 0]

\* One pass of the loop of fpCreatePortTablePortGroups: an object nothing
\* refers to is passed over, any other goes to
\* fpCreatePortObject2PortGroup with the any-port object of the protocol
\* unless the any-port rules are split off.
CreatePortTablePortGroup ==
    /\ pc.phase = "ports"
    /\ PortWork[pc.k][2] # "any"
    /\ \E p \in { PortWork[pc.k][1] }, side \in { PortWork[pc.k][2] },
          i \in { PortWork[pc.k][3] } :
        \E po \in { port_tables[p][side][i] },
           poaa \in { add_any_any(split_any_any, port_tables[p].any) } :
          IF po.port_cnt = 0
          THEN NoGroupBuilt /\ UNCHANGED port_tables
          ELSE IF ~po.has_rule_hash
          THEN /\ NoGroupBuilt
               /\ port_tables' = [port_tables EXCEPT ![p][side][i].group = 0]
          ELSE \E r \in { build_group(offload_search_api, create_offload_mpse,
                                      walked_rules(po, poaa), FALSE, nodes,
                                      detection_option_tree_hash_table,
                                      freed_nodes) } :
                 /\ GroupBuilt(<< p, side, i >>, walked_rules(po, poaa), r, << >>)
                 /\ port_tables' =
                      [port_tables EXCEPT ![p][side][i].group =
                          IF r.fin.ret # 0 THEN 0 ELSE Len(groups) + 1]
    /\ pc' = AfterPortObject(pc.k)
    /\ UNCHANGED << spgmmTable, sopgTable, prm >>
    /\ CompileFrame
    /\ BuildFrame

\* fpCreatePortObject2PortGroup(sc, po2, nullptr) for the copy of the
\* any-port object of a protocol or of svc_any, and the group is given to
\* the any-port object.
CreateAnyPortGroup ==
    /\ pc.phase = "ports"
    /\ PortWork[pc.k][2] = "any"
    /\ \E p \in { PortWork[pc.k][1] } :
        \E po2 \in { port_tables[p].any } :
          \E r \in { build_group(offload_search_api, create_offload_mpse,
                                 walked_rules(po2, NullPortObject2), FALSE, nodes,
                                 detection_option_tree_hash_table,
                                 freed_nodes) } :
            /\ GroupBuilt(<< p, "any", 0 >>,
                          walked_rules(po2, NullPortObject2), r, << >>)
            /\ port_tables' =
                 [port_tables EXCEPT ![p].any.group =
                     IF r.fin.ret # 0 THEN 0 ELSE Len(groups) + 1]
    /\ pc' = AfterPortObject(pc.k)
    /\ UNCHANGED << spgmmTable, sopgTable, prm >>
    /\ CompileFrame
    /\ BuildFrame

\* PortObject2Iterate with PortIteratorData::set for the port objects of a
\* table from the k-th on: the group of an object with a group is written
\* at each of its ports.
RECURSIVE set_ports_all(_, _, _)
set_ports_all(array, table, k) ==
    IF k > Len(table) THEN array
    ELSE IF table[k].group = 0 THEN set_ports_all(array, table, k + 1)
    ELSE set_ports_all([port \in Ports |-> table[k].group], table, k + 1)

RECURSIVE set_ports(_, _, _)
set_ports(array, table, k) ==
    IF k > Len(table) THEN array
    ELSE IF table[k].group = 0 THEN set_ports(array, table, k + 1)
    ELSE set_ports([port \in Ports |->
                       IF port \in table[k].ports THEN table[k].group
                       ELSE array[port]],
                   table, k + 1)

\* prmNewMap() and fpCreateInitRuleMap(prm, src, dst, any)
fpCreateInitRuleMap(src, dst, any) ==
    [prmGeneric |-> any.group,
     prmSrcPort |-> set_ports([port \in Ports |-> 0], src, 1),
     prmDstPort |-> set_ports([port \in Ports |-> 0], dst, 1)]

\* fpCreateRuleMaps
CreateRuleMaps ==
    /\ pc.phase = "rule_maps"
    /\ prm' = [p \in { Protocols[i] : i \in 1 .. Len(Protocols) } |->
                  fpCreateInitRuleMap(port_tables[p].src, port_tables[p].dst,
                                      port_tables[p].any)]
    /\ pc' = AfterService(0)
    /\ NoGroupBuilt
    /\ UNCHANGED << port_tables, spgmmTable, sopgTable >>
    /\ CompileFrame
    /\ BuildFrame

\* One pass of the loop of fpBuildServicePortGroups:
\* fpBuildServicePortGroupByServiceOtnList, then the group is looked up by
\* the name of the service and given to the table of the protocol ids.
BuildServicePortGroup ==
    /\ pc.phase = "services"
    /\ \E dir \in { ServiceWork[pc.k][1] } :
        \E n \in { srmmTable[dir][ServiceWork[pc.k][2]] } :
          \E r \in { build_group(offload_search_api, create_offload_mpse,
                                 n.list, TRUE, nodes,
                                 detection_option_tree_hash_table,
                                 freed_nodes) } :
            IF r.fin.ret # 0
            THEN /\ GroupBuilt(<< dir, n.srvc >>, n.list, r,
                               << ServiceErrorMessage(n.srvc) >>)
                 /\ UNCHANGED << spgmmTable, sopgTable >>
            ELSE /\ GroupBuilt(<< dir, n.srvc >>, n.list, r, << >>)
                 /\ spgmmTable' =
                      [spgmmTable EXCEPT ![dir][n.srvc] = Len(groups) + 1]
                 /\ sopgTable' =
                      [sopgTable EXCEPT ![dir][n.srvc] = Len(groups) + 1]
    /\ pc' = AfterService(pc.k)
    /\ UNCHANGED << port_tables, prm >>
    /\ CompileFrame
    /\ BuildFrame

\* can_build_mt(fp): reloading is Snort::is_reloading() and
\* parallel_compiles what MpseManager::parallel_compiles says of an API.
can_build_mt_normal_only(reloading, parallel_compiles, offload_api) ==
    IF reloading THEN FALSE
    ELSE IF ~parallel_compiles[search_api] THEN FALSE
    ELSE TRUE

can_build_mt(reloading, parallel_compiles, offload_api) ==
    IF reloading THEN FALSE
    ELSE IF ~parallel_compiles[search_api] THEN FALSE
    ELSE IF offload_api # "none" /\ ~parallel_compiles[offload_api] THEN FALSE
    ELSE TRUE

\* Line 1616 in test mode without a memory check: nothing is compiled and
\* fixup_trees is not called.
SkipCompile ==
    /\ pc.phase = "compile"
    /\ pc' = [phase |-> "done", k |-> 0]
    /\ NoGroupBuilt
    /\ UNCHANGED << port_tables, spgmmTable, sopgTable, prm >>
    /\ CompileFrame
    /\ BuildFrame

\* Line 1618: compile_mpses(sc, can_build_mt(fp)) is called.
CallCompileMpses ==
    /\ pc.phase = "compile"
    /\ \E reloading \in BOOLEAN,
          parallel_compiles \in [OffloadApis \ { "none" } -> BOOLEAN] :
          /\ mt_query' = [reloading |-> reloading,
                          parallel_compiles |-> parallel_compiles]
          /\ build_mt' = can_build_mt(reloading, parallel_compiles,
                                      offload_search_api)
    /\ pc' = [phase |-> "compile_mpses", k |-> 0]
    /\ NoGroupBuilt
    /\ UNCHANGED << port_tables, spgmmTable, sopgTable, prm >>
    /\ UNCHANGED << started, running, compiled, fixup_done >>
    /\ BuildFrame

\* The threads compile_mpses may run at once.
compile_threads(parallel) == IF parallel THEN MaxThreads ELSE 1

\* A compile thread takes the next queued MPSE.
CompileTakes ==
    /\ pc.phase = "compile_mpses"
    /\ started < Len(s_tbd)
    /\ Cardinality(running) < compile_threads(build_mt)
    /\ started' = started + 1
    /\ running' = running \cup { started + 1 }
    /\ NoGroupBuilt
    /\ UNCHANGED << port_tables, spgmmTable, sopgTable, prm, pc >>
    /\ UNCHANGED << mt_query, build_mt, compiled, fixup_done >>
    /\ BuildFrame

\* The MPSE a queue entry names, and the group with that MPSE replaced.
mpse_of(q) ==
    IF q[3] = MPSE_TYPE_NORMAL THEN groups[q[1]].mpsegrp[q[2]].normal_mpse
    ELSE groups[q[1]].mpsegrp[q[2]].offload_mpse

with_mpse(q, mpse) ==
    IF q[3] = MPSE_TYPE_NORMAL
    THEN [groups EXCEPT ![q[1]].mpsegrp[q[2]].normal_mpse = mpse]
    ELSE [groups EXCEPT ![q[1]].mpsegrp[q[2]].offload_mpse = mpse]

\* The compilation of an MPSE ends: it has built the tree of its rules and
\* is counted, or it has failed.
CompileEnds ==
    /\ pc.phase = "compile_mpses"
    /\ \E i \in running :
          /\ running' = running \ { i }
          /\ \/ \E r \in { compile_mpse(mpse_of(s_tbd[i]), nodes,
                                         detection_option_tree_hash_table,
                                         freed_nodes, s_tbd[i][3]) } :
                   /\ groups' = with_mpse(s_tbd[i], r.mpse)
                   /\ nodes' = r.nodes
                   /\ detection_option_tree_hash_table' = r.table
                   /\ freed_nodes' = r.freed
                   /\ compiled' = compiled + 1
             \/ /\ started - Cardinality(running) - compiled < MaxCompileFailures
                /\ UNCHANGED << groups, nodes, detection_option_tree_hash_table,
                                freed_nodes, compiled >>
    /\ UNCHANGED << s_tbd, mpse_count, offload_mpse_count, parse_errors,
                    num_patterns_truncated, otn_meta >>
    /\ UNCHANGED << port_tables, spgmmTable, sopgTable, prm, pc >>
    /\ UNCHANGED << mt_query, build_mt, started, fixup_done >>
    /\ BuildFrame

\* fixup_tree(dot, branched, contents): the heap after the call and the rule
\* returned, 0 for a null pointer.
RECURSIVE fixup_tree(_, _, _, _)
RECURSIVE fixup_children(_, _, _)
\* fixup_children that calls the children as if they had not branched, with
\* one content above them.
fixup_children_unbranched(ns, dot, i) ==
    IF i > ns[dot].num_children THEN ns
    ELSE fixup_children(fixup_tree(ns, ns[dot].children[i], FALSE, 1).nodes,
                        dot, i + 1)

\* Lines 126-127: the loop over the children of a node with two or more.
fixup_children(ns, dot, i) ==
    IF i > ns[dot].num_children THEN ns
    ELSE fixup_children(fixup_tree(ns, ns[dot].children[i], TRUE, 0).nodes,
                        dot, i + 1)

\* fixup_tree whose one-child node passes the rule up from the first content
\* on.
fixup_tree_returns_with_one(ns, dot, branched, contents) ==
    IF ns[dot].num_children = 0
    THEN IF ~branched /\ contents # 0
         THEN [nodes |-> ns, otn |-> ns[dot].option_data[2]]
         ELSE [nodes |-> [ns EXCEPT ![dot].otn = ns[dot].option_data[2]], otn |-> 0]
    ELSE IF ns[dot].num_children = 1
    THEN LET counted(c) ==
                 LET below(r) ==
                         IF ~branched /\ c > 0
                         THEN r
                         ELSE [nodes |-> [r.nodes EXCEPT ![dot].otn = r.otn], otn |-> 0]
                 IN  below(fixup_tree(ns, ns[dot].children[1], FALSE, c))
         IN  counted(IF ns[dot].option_type = RULE_OPTION_TYPE_CONTENT
                     THEN contents + 1 ELSE contents)
    ELSE [nodes |-> fixup_children(ns, dot, 1), otn |-> 0]

\* Lines 100-128: a leaf, a node with one child, a node with more.
fixup_tree(ns, dot, branched, contents) ==
    IF ns[dot].num_children = 0
    THEN IF ~branched /\ contents # 0
         THEN [nodes |-> ns, otn |-> ns[dot].option_data[2]]
         ELSE [nodes |-> [ns EXCEPT ![dot].otn = ns[dot].option_data[2]],
               otn |-> 0]
    ELSE IF ns[dot].num_children = 1
    THEN LET counted(c) ==
                LET below(r) ==
                        IF ~branched /\ c > 1 THEN r
                        ELSE [nodes |-> [r.nodes EXCEPT ![dot].otn = r.otn],
                              otn |-> 0]
                IN  below(fixup_tree(ns, ns[dot].children[1], FALSE, c))
         IN  counted(IF ns[dot].option_type = RULE_OPTION_TYPE_CONTENT
                     THEN contents + 1 ELSE contents)
    ELSE [nodes |-> fixup_children(ns, dot, 1), otn |-> 0]

\* fixup_trees(sc): fixup_tree(node, true, 0) for every node of the hash
\* table from the k-th on.
RECURSIVE fixup_trees(_, _, _)
fixup_trees(table, ns, k) ==
    IF k > Len(table) THEN ns
    ELSE fixup_trees(table, fixup_tree(ns, table[k], TRUE, 0).nodes, k + 1)

\* Lines 1618-1624: compile_mpses returns when every queued MPSE was
\* taken and none is being compiled; its count is compared with the
\* counters and fixup_trees is called.
CompileMpsesReturns ==
    /\ pc.phase = "compile_mpses"
    /\ started = Len(s_tbd)
    /\ running = {}
    /\ parse_errors' =
         IF compiled # mpse_count + offload_mpse_count
         THEN Append(parse_errors,
                     CompileErrorMessage(mpse_count + offload_mpse_count - compiled))
         ELSE parse_errors
    /\ nodes' = fixup_trees(detection_option_tree_hash_table, nodes, 1)
    /\ fixup_done' = TRUE
    /\ pc' = [phase |-> "done", k |-> 0]
    /\ UNCHANGED << groups, s_tbd, mpse_count, offload_mpse_count,
                    num_patterns_truncated, otn_meta,
                    detection_option_tree_hash_table, freed_nodes >>
    /\ UNCHANGED << port_tables, spgmmTable, sopgTable, prm >>
    /\ UNCHANGED << mt_query, build_mt, started, running, compiled >>
    /\ BuildFrame

\* fpCreateFastPacketDetection past line 1579: the configuration has rules,
\* the counters are zero, no group is built yet.
InitBuild ==
    /\ HpackInit /\ max_size = MaxTableSize
    /\ DotInit
    /\ PgInit
    /\ FinIdle
    /\ offload_search_api \in OffloadApis
    /\ split_any_any \in BOOLEAN
    /\ create_offload_mpse \in BOOLEAN
    /\ offload_search_api \in { "none", search_api } => create_offload_mpse
    /\ port_tables \in PortTableChoices
    /\ srmmTable \in ServiceMapChoices
    /\ spgmmTable = [dir \in { "to_srv", "to_cli" } |-> [s \in Services |-> 0]]
    /\ sopgTable = [dir \in { "to_srv", "to_cli" } |-> [s \in Services |-> 0]]
    /\ prm = << >>
    /\ groups = << >>
    /\ s_tbd = << >>
    /\ pc = [phase |-> "ports", k |-> 1]
    /\ mt_query = << >>
    /\ build_mt = FALSE
    /\ started = 0
    /\ running = {}
    /\ compiled = 0
    /\ fixup_done = FALSE
    /\ fixup_call = NoCall

BuildNext ==
    \/ CreatePortTablePortGroup
    \/ CreateAnyPortGroup
    \/ CreateRuleMaps
    \/ BuildServicePortGroup
    \/ SkipCompile
    \/ CallCompileMpses
    \/ CompileTakes
    \/ CompileEnds
    \/ CompileMpsesReturns

SpecBuild == InitBuild /\ [][BuildNext]_vars

(***************************************************************************)
(* fixup_tree and fixup_trees on finalized trees                           *)
(***************************************************************************)

\* The largest count of content options a call of fixup_tree is given.
MaxContents == 2

FixupFrame ==
    UNCHANGED << hpack_vars, pg_vars, fin_vars, roots,
                 detection_option_tree_hash_table, freed_nodes, finalized,
                 inserted, last_insert, split_any_any, create_offload_mpse,
                 port_tables, srmmTable, spgmmTable, sopgTable, prm, groups,
                 s_tbd, pc, mt_query, build_mt, started, running, compiled,
                 fixup_done >>

\* The rules of the tree fixup_tree is called on, and the lists they come
\* in: every rule once at most.
MaxFixupRules == 3

FixupLists ==
    UNION { { l \in [1 .. n -> OtnIds] :
                \A i \in 1 .. n, j \in 1 .. n : l[i] = l[j] => i = j } :
            n \in 1 .. MaxFixupRules }

\* The heap and the hash table after a pattern matcher has handed the rules
\* of the list to create_tree and made the last call with a null id.
fixup_input(built) ==
    [nodes |-> built.nodes,
     final |-> finalize_detection_option_tree(<< >>, built.nodes, {}, built.root)]

\* fixup_tree(dot, branched, contents) on a node of the finalized trees.
FixupTree ==
    /\ fixup_call = NoCall
    /\ finalized = Trees
    /\ \E dot \in DOMAIN nodes \ freed_nodes, branched \in BOOLEAN,
          contents \in 0 .. MaxContents :
          \E r \in { fixup_tree(nodes, dot, branched, contents) } :
             /\ nodes' = r.nodes
             /\ fixup_call' = [dot |-> dot, branched |-> branched,
                               contents |-> contents, otn |-> r.otn]
    /\ FixupFrame

\* fixup_trees(sc) once every tree is finalized; the call is recorded with
\* a null node.
FixupTrees ==
    /\ fixup_call = NoCall
    /\ finalized = Trees
    /\ detection_option_tree_hash_table # << >>
    /\ nodes' = fixup_trees(detection_option_tree_hash_table, nodes, 1)
    /\ fixup_call' = [dot |-> 0, branched |-> TRUE, contents |-> 0, otn |-> 0]
    /\ FixupFrame

FixupNext == FixupTree \/ FixupTrees

\* The normal pattern matcher has compiled a tree of some rules.
InitFixup ==
    /\ HpackInit /\ max_size = MaxTableSize
    /\ PgInit /\ offload_search_api = "none"
    /\ FinIdle /\ BuildIdle
    /\ \E list \in FixupLists :
         \E r \in { fixup_input(build_nfp_tree(<< >>, NoRoot, list, 1)) } :
            /\ nodes = r.nodes
            /\ roots = [t \in Trees |->
                           IF t = MPSE_TYPE_NORMAL THEN r.final.root ELSE NoRoot]
            /\ detection_option_tree_hash_table = r.final.table
            /\ freed_nodes = r.final.freed
            /\ inserted = [t \in Trees |->
                              IF t = MPSE_TYPE_NORMAL THEN list ELSE << >>]
    /\ finalized = Trees
    /\ last_insert = NoInsert

SpecFixup == InitFixup /\ [][FixupNext]_vars

(***************************************************************************)
(* Properties of the detection option trees                                *)
(***************************************************************************)

\* The residual options of a rule for an MPSE type from entry k on: the
\* identities of its options, in order, without the leaf markers and the
\* contents that are fast-pattern only for that type.
RECURSIVE Residual(_, _, _)
Residual(otn, k, mpse_type) ==
    IF k > Len(Otns[otn].opt_func) THEN <<>>
    ELSE LET o == Otns[otn].opt_func[k]
             fp_only == IF mpse_type = MPSE_TYPE_NORMAL
                        THEN Otns[otn].normal_fp_only = k
                        ELSE Otns[otn].offload_fp_only = k
         IN  IF o.type = RULE_OPTION_TYPE_LEAF_NODE \/ fp_only
             THEN Residual(otn, k + 1, mpse_type)
             ELSE << o.ips_opt >> \o Residual(otn, k + 1, mpse_type)

\* The leaves below node n with the inner nodes passed on the way to each.
RECURSIVE paths_from(_, _, _)
paths_from(ns, n, prefix) ==
    IF n = 0 THEN {}
    ELSE IF ns[n].option_type = RULE_OPTION_TYPE_LEAF_NODE
    THEN { [leaf |-> n, inner |-> prefix] }
    ELSE UNION { paths_from(ns, ns[n].children[i], Append(prefix, n)) :
                    i \in 1 .. Len(ns[n].children) }

\* The leaf paths of the tree of pattern state t.
LeafPaths(t) ==
    UNION { paths_from(nodes, roots[t].children[i], <<>>) :
               i \in 1 .. Len(roots[t].children) }

\* The rule a leaf carries.
LeafOtn(n) == nodes[n].option_data[2]

\* The option identities along a path.
PathOptions(p) == [i \in 1 .. Len(p.inner) |-> nodes[p.inner[i]].option_data[2]]

InsertedIn(t) == { inserted[t][i] : i \in 1 .. Len(inserted[t]) }

\* The rule's gid:sid:rev is carried by no other rule object put in the tree.
DistinctSig(t, otn) ==
    \A other \in InsertedIn(t) \ {otn} :
        ~SameSig(Otns[other].sigInfo, Otns[otn].sigInfo)

\* C12: in every tree, the options along the path to each leaf are the
\* residual options of the leaf's rule, in order, the path passes inner
\* nodes that hold option pointers only, and every inserted rule whose
\* gid:sid:rev no other inserted rule has owns exactly one leaf.
C12_LeafPathIsResidual ==
    \A t \in Trees :
        /\ \A p \in LeafPaths(t) :
              /\ LeafOtn(p.leaf) \in InsertedIn(t)
              /\ PathOptions(p) = Residual(LeafOtn(p.leaf), 1, TreeType(t))
              /\ \A i \in 1 .. Len(p.inner) :
                    nodes[p.inner[i]].option_data[1] = "ips_opt"
        /\ \A otn \in InsertedIn(t) :
              DistinctSig(t, otn) =>
                 Cardinality({ p \in LeafPaths(t) : LeafOtn(p.leaf) = otn }) = 1

\* A tree of the normal MPSE holds the rule whose first content is
\* fast-pattern only, a rule that branches below the shared option and a rule
\* without options, each put in once or more.
C12_Witness ==
    \E t \in Trees :
        /\ TreeType(t) = MPSE_TYPE_NORMAL
        /\ {1, 2, 4} \subseteq InsertedIn(t)
        /\ Cardinality(LeafPaths(t)) = 3
        /\ \E p \in LeafPaths(t) :
              LeafOtn(p.leaf) = 1 /\ PathOptions(p) = << 1, 2 >>

\* Length of the longest common prefix of two sequences.
RECURSIVE CommonPrefix(_, _)
CommonPrefix(a, b) ==
    IF a = <<>> \/ b = <<>> \/ Head(a) # Head(b) THEN 0
    ELSE 1 + CommonPrefix(Tail(a), Tail(b))

\* C13: two leaf paths of one tree share their first k inner nodes when the
\* residual options of the two rules agree on the first k options.
C13_PrefixShared ==
    \A t \in Trees :
        \A p, q \in LeafPaths(t) :
            LET k == CommonPrefix(Residual(LeafOtn(p.leaf), 1, TreeType(t)),
                                  Residual(LeafOtn(q.leaf), 1, TreeType(t)))
            IN  /\ Len(p.inner) >= k
                /\ Len(q.inner) >= k
                /\ \A i \in 1 .. k : p.inner[i] = q.inner[i]

\* A tree whose root has two children or more holds, below a later child,
\* two rules that share one inner node and part below it, put in after
\* another rule.
C13_Witness ==
    \E t \in Trees :
        /\ Len(inserted[t]) >= 3
        /\ roots[t].num_children >= 2
        /\ \E p, q \in LeafPaths(t) :
              /\ LeafOtn(p.leaf) = inserted[t][2]
              /\ LeafOtn(q.leaf) = inserted[t][Len(inserted[t])]
              /\ p.leaf # q.leaf
              /\ Len(p.inner) >= 1 /\ Len(q.inner) >= 1
              /\ p.inner[1] = q.inner[1]
              /\ p.inner # q.inner
              /\ p.inner[1] # roots[t].children[1]

\* The nodes that hold an option.
InnerNodes ==
    { n \in 1 .. Len(nodes) : nodes[n].option_type # RULE_OPTION_TYPE_LEAF_NODE }

RelativeChildren(n) ==
    { i \in 1 .. Len(nodes[n].children) :
         nodes[n].children[i] # 0 /\ nodes[nodes[n].children[i]].is_relative }

\* C14: relative_children of every inner node is the number of its children
\* whose is_relative flag is set.
C14_RelativeChildrenCounted ==
    \A n \in InnerNodes :
        nodes[n].relative_children = Cardinality(RelativeChildren(n))

\* One inner node has two relative children, and another has an inner child
\* that is not relative.
C14_Witness ==
    /\ \E n \in InnerNodes : nodes[n].relative_children = 2
    /\ \E n \in InnerNodes :
          /\ nodes[n].relative_children = 0
          /\ \E i \in 1 .. Len(nodes[n].children) :
                nodes[n].children[i] \in InnerNodes

\* The sub-tree objects the trees hold.
LiveNodes ==
    UNION { UNION { subtree(nodes, roots[t].children[i]) :
                       i \in 1 .. Len(roots[t].children) } : t \in Trees }

\* C15 as stated: once every tree is finalized, structurally equal sub-trees
\* at any depth are one object.
C15_NoEqualSubtrees ==
    finalized = Trees =>
        \A a, b \in LiveNodes : tree_equal(nodes, a, b) => a = b

RootChildren(t) ==
    { roots[t].children[i] : i \in 1 .. Len(roots[t].children) } \ {0}

\* C15: structurally equal direct children of the roots of finalized trees
\* are one object, which is in the hash table and has not been freed.
C15_RootChildrenHashConsed ==
    \A t1, t2 \in finalized :
        \A a \in RootChildren(t1), b \in RootChildren(t2) :
            /\ a \notin freed_nodes
            /\ \E k \in DOMAIN detection_option_tree_hash_table :
                  detection_option_tree_hash_table[k] = a
            /\ tree_equal(nodes, a, b) => a = b

\* Every tree is finalized, a duplicate was freed, and two roots share an
\* inner node as their child.
C15_Witness ==
    /\ finalized = Trees
    /\ freed_nodes # {}
    /\ \E t1, t2 \in Trees :
          /\ t1 # t2
          /\ \E a \in RootChildren(t1) \cap RootChildren(t2) : a \in InnerNodes

\* The node the options lead to from the root: 0 for the root itself, -1
\* when some option has no node.
RECURSIVE FollowPath(_, _, _)
FollowPath(children, at, options) ==
    IF options = <<>> THEN at
    ELSE LET next == { i \in 1 .. Len(children) :
                          children[i] # 0
                          /\ nodes[children[i]].option_data
                                = OptionData(Head(options)) }
         IN  IF next = {} THEN -1
             ELSE LET c == children[CHOOSE i \in next : TRUE]
                  IN  FollowPath(nodes[c].children, c, Tail(options))

FinalNode(t, otn) ==
    FollowPath(roots[t].children, 0, Residual(otn, 1, TreeType(t)))

\* The leaves among the children that carry the gid:sid:rev of the rule.
SigLeaves(ns, children, otn) ==
    { children[i] : i \in
        { j \in 1 .. Len(children) :
             /\ children[j] # 0
             /\ ns[children[j]].option_type = RULE_OPTION_TYPE_LEAF_NODE
             /\ SameSig(Otns[ns[children[j]].option_data[2]].sigInfo,
                        Otns[otn].sigInfo) } }

ChildrenAt(ns, rt, n) == IF n = 0 THEN rt.children ELSE ns[n].children

\* One insertion: when the residual path is in the tree already no inner
\* node is made; the tree stays as it is when a leaf child of the final node
\* carries the gid:sid:rev, and else gets one node, a leaf for the rule
\* below the final node.  A rule put in again leaves the tree as it is.
LeafUnlessSameSig ==
    \A t \in Trees, otn \in OtnIds :
          inserted'[t] = Append(inserted[t], otn) =>
             LET f == FinalNode(t, otn) IN
             /\ (f # -1) = ~last_insert'.new_inner
             /\ f # -1 =>
                   IF SigLeaves(nodes, ChildrenAt(nodes, roots[t], f), otn) # {}
                   THEN /\ nodes' = nodes
                        /\ roots' = roots
                        /\ ~last_insert'.new_leaf
                   ELSE /\ last_insert'.new_leaf
                        /\ Len(nodes') = Len(nodes) + 1
                        /\ \A n \in 1 .. Len(nodes) :
                              n # f => nodes'[n] = nodes[n]
                        /\ nodes'[Len(nodes')].option_type = RULE_OPTION_TYPE_LEAF_NODE
                        /\ nodes'[Len(nodes')].option_data = OtnData(otn)
                        /\ Len(nodes') \in
                              { ChildrenAt(nodes', roots'[t], f)[i] :
                                   i \in 1 .. Len(ChildrenAt(nodes', roots'[t], f)) }
             /\ otn \in InsertedIn(t) => nodes' = nodes /\ roots' = roots

\* Two inserted rules of one tree with different gid:sid:rev and the same
\* residual options have leaves below the same node.
SameOptionsShareNode ==
    \A t \in Trees :
        \A r1, r2 \in InsertedIn(t) :
            /\ ~SameSig(Otns[r1].sigInfo, Otns[r2].sigInfo)
            /\ Residual(r1, 1, TreeType(t)) = Residual(r2, 1, TreeType(t))
            => \E p, q \in LeafPaths(t) :
                  /\ SameSig(Otns[LeafOtn(p.leaf)].sigInfo, Otns[r1].sigInfo)
                  /\ SameSig(Otns[LeafOtn(q.leaf)].sigInfo, Otns[r2].sigInfo)
                  /\ p.inner = q.inner
                  /\ p.leaf # q.leaf

\* C16: an insertion whose residual path exists appends a leaf unless a leaf
\* child of the final node carries the same gid:sid:rev, and then changes
\* nothing; the same rule put in twice gives the tree of putting it in once,
\* and rules with other gid:sid:rev and the same residual options get their
\* leaves below one node.
C16_LeafUnlessSameSig ==
    [][LeafUnlessSameSig]_vars /\ []SameOptionsShareNode

\* The last insertion put a rule in once more and changed nothing, in a tree
\* where a rule with the same options and another sid has its leaf below
\* the same node.
C16_Witness ==
    /\ last_insert.tree \in Trees
    /\ ~last_insert.new_inner
    /\ ~last_insert.new_leaf
    /\ \E p, q \in LeafPaths(last_insert.tree) :
          /\ LeafOtn(p.leaf) = last_insert.otn
          /\ p.leaf # q.leaf
          /\ p.inner = q.inner
          /\ Len(p.inner) = 2


(***************************************************************************)
(* Properties of the port group                                            *)
(***************************************************************************)

\* The rules that have a leaf in the tree.
TreeOtns(ns, root) ==
    { ns[n].option_data[2] :
        n \in { m \in UNION { subtree(ns, root.children[i]) :
                                 i \in 1 .. Len(root.children) } :
                  ns[m].option_type = RULE_OPTION_TYPE_LEAF_NODE } }

\* The MPSEs a group holds.
Mpses(grp) ==
    { m \in UNION { { grp[t].normal_mpse, grp[t].offload_mpse } : t \in PmTypes } :
         m.exists }

\* The rules with a leaf in a tree of the group: a tree of one of its MPSEs
\* or its no-fast-pattern tree.
GroupLeaves ==
    TreeOtns(nodes, nfp_tree)
        \cup UNION { TreeOtns(nodes, m.tree) : m \in Mpses(mpsegrp) }

\* The rule has a pattern in an MPSE of the group.
InMpse(grp, otn) ==
    \E m \in Mpses(grp) : \E i \in 1 .. Len(m.patterns) : m.patterns[i].otn = otn

NfpList == { nfp_head[i] : i \in 1 .. Len(nfp_head) }

\* The build of the port object is over: the group is finished and every
\* MPSE it queued is compiled.
Built ==
    /\ po_group # "unset"
    /\ \A m \in Mpses(mpsegrp) : m.queued => m.compiled

\* What the selector answers for the rule under the configuration.
NormalSelection(otn) == get_fp_content(otn, FALSE)

OffloadAsked == offload_search_api \notin { "none", search_api }

OffloadSelection(otn) == get_fp_content(otn, TRUE)

\* The adder offers the rule to no MPSE: the normal selection is empty, or
\* another api is configured for offload and its selection is empty.
NotOffered(otn) ==
    \/ NormalSelection(otn).pmv = << >>
    \/ OffloadAsked /\ OffloadSelection(otn).pmv = << >>

AdderCalled(otn) == handed' = Append(handed, otn) /\ is_network_protocol(otn)

\* Every pattern the adder selects for the rule.
SelectedPatterns(otn) ==
    { NormalSelection(otn).pmv[i] : i \in 1 .. Len(NormalSelection(otn).pmv) }
       \cup IF OffloadAsked
            THEN { OffloadSelection(otn).pmv[i] :
                      i \in 1 .. Len(OffloadSelection(otn).pmv) }
            ELSE {}

\* The adder put the rule into an MPSE: with a negated main pattern the rule
\* goes on the no-fast-pattern list as well, once, and with no negated
\* pattern selected the list stays as it is.
NegatedAlsoListed ==
    \A otn \in OtnIds :
        AdderCalled(otn) /\ InMpse(mpsegrp', otn) =>
           LET pmv == NormalSelection(otn).pmv IN
           /\ pmv[Len(pmv)].negated =>
                 /\ nfp_head' = Append(nfp_head, otn)
                 /\ nfp_rule_count' = nfp_rule_count + 1
           /\ (\A pmd \in SelectedPatterns(otn) : ~pmd.negated) =>
                 /\ nfp_head' = nfp_head
                 /\ nfp_rule_count' = nfp_rule_count

\* fpFinishPortGroup makes every rule of the list a leaf of the
\* no-fast-pattern tree.
ListedBecomeLeaves ==
    po_group = "unset" /\ po_group' # "unset" =>
       NfpList \subseteq TreeOtns(nodes', nfp_tree')

\* C18: a rule put into an MPSE whose main pattern is negated is put on the
\* no-fast-pattern list too, and so becomes a leaf of the no-fast-pattern
\* tree; with no selected pattern negated it is not put on the list.
C18_NegatedAlsoListed ==
    [][NegatedAlsoListed /\ ListedBecomeLeaves]_vars

\* The group is finished: a rule with a negated main pattern is a pattern of
\* an MPSE and a leaf of the no-fast-pattern tree, and a rule without a
\* negated pattern is a pattern of an MPSE and not in that tree.
C18_Witness ==
    /\ po_group = "pg"
    /\ \E otn \in Handed :
          /\ InMpse(mpsegrp, otn)
          /\ NormalSelection(otn).pmv[Len(NormalSelection(otn).pmv)].negated
          /\ otn \in TreeOtns(nodes, nfp_tree)
    /\ \E otn \in Handed :
          /\ InMpse(mpsegrp, otn)
          /\ \A pmd \in SelectedPatterns(otn) : ~pmd.negated
          /\ otn \notin TreeOtns(nodes, nfp_tree)

\* The rule is put on the list once, or not at all.
ListedOnce(otn) ==
    /\ nfp_head' = Append(nfp_head, otn)
    /\ otn \notin NfpList

NotListed(otn) == nfp_head' = nfp_head /\ ~InMpse(mpsegrp', otn)

\* C19 as stated: whenever no MPSE takes a rule that is not builtin and is
\* enabled, the rule is put on the no-fast-pattern list once if exclude is
\* false and nowhere if exclude is true.
C19_NoMpseThenListed ==
    [][\A otn \in OtnIds :
          /\ AdderCalled(otn)
          /\ ~builtin(otn) /\ enabled_somewhere(otn)
          /\ ~InMpse(mpsegrp', otn)
          => IF NormalSelection(otn).exclude THEN NotListed(otn) ELSE ListedOnce(otn)
      ]_vars

\* C19: whenever a rule that is not builtin and is enabled is offered to no
\* MPSE, it is put on the no-fast-pattern list once if exclude is false and
\* nowhere if exclude is true.
C19_NotOfferedThenListed ==
    [][\A otn \in OtnIds :
          /\ AdderCalled(otn)
          /\ ~builtin(otn) /\ enabled_somewhere(otn)
          /\ NotOffered(otn)
          => IF NormalSelection(otn).exclude THEN NotListed(otn) ELSE ListedOnce(otn)
      ]_vars

\* The adder has listed a rule without fast pattern and has passed over an
\* excluded one, while another rule sits in an MPSE.
C19_Witness ==
    /\ \E otn \in Handed :
          /\ ~builtin(otn) /\ enabled_somewhere(otn) /\ is_network_protocol(otn)
          /\ NotOffered(otn) /\ ~NormalSelection(otn).exclude
          /\ otn \in NfpList
    /\ last_add.otn \in OtnIds
    /\ NotOffered(last_add.otn) /\ NormalSelection(last_add.otn).exclude
    /\ last_add.otn \notin NfpList
    /\ Mpses(mpsegrp) # {}

\* C20: with another api configured for offload, a rule with a normal
\* selection and an empty offload selection leaves the MPSEs of the group,
\* their patterns and the two MPSE counters as they are.
C20_EmptyOffloadSkipsMpses ==
    [][\A otn \in OtnIds :
          /\ AdderCalled(otn)
          /\ ~builtin(otn) /\ enabled_somewhere(otn)
          /\ OffloadAsked
          /\ NormalSelection(otn).pmv # << >>
          /\ OffloadSelection(otn).pmv = << >>
          => /\ mpsegrp' = mpsegrp
             /\ mpse_count' = mpse_count
             /\ offload_mpse_count' = offload_mpse_count
      ]_vars

\* The latest call was for such a rule, in a group that has the normal MPSE
\* of the rule's pm_type already.
C20_Witness ==
    /\ OffloadAsked
    /\ last_add.otn \in OtnIds
    /\ NormalSelection(last_add.otn).pmv # << >>
    /\ OffloadSelection(last_add.otn).pmv = << >>
    /\ LET pmv == NormalSelection(last_add.otn).pmv
       IN  mpsegrp[pmv[Len(pmv)].pm_type].normal_mpse.exists
    /\ ~InMpse(mpsegrp, last_add.otn)
    /\ mpse_count >= 1
    /\ offload_mpse_count >= 1

\* Mpse::get_pattern_count(): the patterns added to the MPSE.
get_pattern_count(mpse) == Len(mpse.patterns)

\* The number of MPSE pointers of the group that are not null.
RECURSIVE MpseCount(_, _)
MpseCount(grp, types) ==
    IF types = {} THEN 0
    ELSE LET t == CHOOSE x \in types : TRUE
         IN  (IF grp[t].normal_mpse.exists THEN 1 ELSE 0)
             + (IF grp[t].offload_mpse.exists THEN 1 ELSE 0)
             + MpseCount(grp, types \ {t})

\* C21: in a port group that survives fpFinishPortGroup, every MPSE that is
\* not null has a pattern count above zero, and an mpsegrp entry whose two
\* MPSEs are null is null itself.
C21_SurvivingMpseHasPatterns ==
    po_group = "pg" =>
       \A t \in PmTypes :
          /\ mpsegrp[t].normal_mpse.exists =>
                get_pattern_count(mpsegrp[t].normal_mpse) > 0
          /\ mpsegrp[t].offload_mpse.exists =>
                get_pattern_count(mpsegrp[t].offload_mpse) > 0
          /\ ~mpsegrp[t].normal_mpse.exists /\ ~mpsegrp[t].offload_mpse.exists
                => ~mpsegrp[t].exists

\* The group survives with an MPSE of one pm_type, while an MPSE that was
\* made and got no pattern is gone together with its mpsegrp entry.
C21_Witness ==
    /\ po_group = "pg"
    /\ mpse_count + offload_mpse_count > MpseCount(mpsegrp, PmTypes)
    /\ \E t \in PmTypes : mpsegrp[t].exists
    /\ \E t \in PmTypes : ~mpsegrp[t].exists

\* The pm_type of the rule's main pattern for the normal MPSE.
MainPmType(otn) ==
    NormalSelection(otn).pmv[Len(NormalSelection(otn).pmv)].pm_type

\* A call of the adder that ends in a failure to make an MPSE: one parse
\* error that names the matcher and the pm_type of the main pattern, -1 is
\* returned, and the rule is in no MPSE and not on the no-fast-pattern list.
CreationFailureSkipsRule ==
    \A otn \in OtnIds :
        AdderCalled(otn) /\ parse_errors' # parse_errors =>
           /\ \E matcher \in { MPSE_TYPE_NORMAL, MPSE_TYPE_OFFLOAD } :
                 parse_errors' =
                    Append(parse_errors, ParseErrorMessage(matcher, MainPmType(otn)))
           /\ last_add' = [otn |-> otn, ret |-> -1]
           /\ ~InMpse(mpsegrp', otn)
           /\ nfp_head' = nfp_head
           /\ nfp_rule_count' = nfp_rule_count
           /\ rule_count' = rule_count
           /\ po_group' = "unset"

\* The failure stops neither the walk over the rules nor the end of the
\* group: a later rule is handed to the adder as any rule is, and the group
\* is finished as any group is.
BuildGoesOn ==
    create_failed # {} =>
       /\ (\E otn \in OtnIds : AdderCalled(otn)) =>
             po_group = "unset" /\ last_add'.otn \notin Handed
       /\ po_group' # po_group =>
             po_group = "unset" /\ po_group' \in { "pg", "null" }
       /\ create_failed \subseteq create_failed'

\* C27: when create_normal_mpse or create_offload_mpse fails in the per-rule
\* adder, a parse error with the pm_type is recorded, the rule goes to no
\* MPSE and to no no-fast-pattern list, and the build goes on with the
\* rules that remain.
C27_CreationFailureSkipsRule ==
    [][CreationFailureSkipsRule /\ BuildGoesOn]_vars

\* A normal and an offload MPSE could not be made for two rules, the rule
\* handed over after them is in an MPSE, and the group was finished and
\* given to the port object.
C27_Witness ==
    /\ po_group = "pg"
    /\ \E i, j \in DOMAIN parse_errors :
          /\ parse_errors[i].matcher = MPSE_TYPE_NORMAL
          /\ parse_errors[j].matcher = MPSE_TYPE_OFFLOAD
    /\ last_add.otn \in OtnIds \ create_failed
    /\ last_add.ret = 0
    /\ InMpse(mpsegrp, last_add.otn)

\* The patterns an MPSE got in the step.
NewPatterns(old, new) ==
    SubSeq(new.patterns, Len(old.patterns) + 1, Len(new.patterns))

\* What a selection puts into an MPSE: the main pattern, the last of the
\* vector, as the final transform gives it, then every alternate with
\* pattern_buf from its start and pattern_size, each with a PMX of the rule.
ExpectedPatterns(otn, pmv) ==
    << [otn |-> otn, pmd |-> pmv[Len(pmv)],
        pattern |-> fpGetFinalPattern(max_pattern_len, pmv[Len(pmv)]).pattern,
        bytes |-> fpGetFinalPattern(max_pattern_len, pmv[Len(pmv)]).bytes] >>
    \o [i \in 1 .. Len(pmv) - 1 |->
          [otn |-> otn, pmd |-> pmv[i], pattern |-> 0,
           bytes |-> pmv[i].pattern_size]]

AlternatesVerbatim ==
    \A otn \in OtnIds :
        AdderCalled(otn) /\ InMpse(mpsegrp', otn) =>
           LET t == MainPmType(otn) IN
           /\ NewPatterns(mpsegrp[t].normal_mpse, mpsegrp'[t].normal_mpse)
                 = ExpectedPatterns(otn, NormalSelection(otn).pmv)
           /\ NewPatterns(mpsegrp[t].offload_mpse, mpsegrp'[t].offload_mpse)
                 = IF OffloadAsked
                   THEN ExpectedPatterns(otn, OffloadSelection(otn).pmv)
                   ELSE << >>
           /\ \A t2 \in PmTypes \ {t} : mpsegrp'[t2] = mpsegrp[t2]

\* C24: the alternates of a rule go into the MPSE its main pattern goes
\* into, the one of the main pattern's pm_type, each with its whole
\* pattern_buf and pattern_size and a PMX of the rule; the main pattern
\* alone is put through the final transform.
C24_AlternatesVerbatim == [][AlternatesVerbatim]_vars

\* A normal and an offload MPSE of one pm_type hold the main pattern of a
\* rule cut to the maximum and an alternate of the rule that is longer than
\* the maximum.
C24_Witness ==
    \E t \in PmTypes :
       /\ mpsegrp[t].normal_mpse.exists /\ mpsegrp[t].offload_mpse.exists
       /\ \A m \in { mpsegrp[t].normal_mpse, mpsegrp[t].offload_mpse } :
             \E i, j \in DOMAIN m.patterns :
                /\ m.patterns[i].otn = m.patterns[j].otn
                /\ m.patterns[i].bytes < m.patterns[i].pmd.pattern_size
                /\ m.patterns[j].bytes > max_pattern_len
                /\ m.patterns[j].bytes = m.patterns[j].pmd.pattern_size

(***************************************************************************)
(* Properties of the build                                                 *)
(***************************************************************************)

GroupIds == 1 .. Len(groups)

\* The group had, when fpFinishPortGroup was called, an MPSE with a pattern
\* or a rule in its no-fast-pattern list.
HasContent(g) ==
    \/ \E t \in PmTypes :
          \/ get_pattern_count(g.mpsegrp_added[t].normal_mpse) > 0
          \/ get_pattern_count(g.mpsegrp_added[t].offload_mpse) > 0
    \/ g.nfp_head_added # << >>

\* The group pointer of the port object, or the entry of the service in the
\* table of its direction, the group was built for.
OwnerGroup(owner) ==
    IF Len(owner) = 2 THEN spgmmTable[owner[1]][owner[2]]
    ELSE IF owner[2] = "any" THEN port_tables[owner[1]].any.group
    ELSE port_tables[owner[1]][owner[2]][owner[3]].group

\* C22: a PortGroup is kept, as the group of its port object or as the
\* entry of its service, exactly if after all its rules were added it had an
\* MPSE with a pattern or a rule in its no-fast-pattern list; any other
\* group is freed and the port object's group is null, the service has no
\* entry.
C22_KeptIffHasContent ==
    \A id \in GroupIds :
        /\ (OwnerGroup(groups[id].owner) = id) <=> HasContent(groups[id])
        /\ HasContent(groups[id]) => ~groups[id].freed
        /\ ~HasContent(groups[id]) =>
              groups[id].freed /\ OwnerGroup(groups[id].owner) = 0

\* A port object's group with rules was freed, another port object kept
\* its group for a no-fast-pattern rule alone, and a service kept its group.
C22_Witness ==
    \E i \in GroupIds, j \in GroupIds, k \in GroupIds :
        /\ Len(groups[i].owner) = 3 /\ groups[i].walked # << >>
        /\ groups[i].freed /\ OwnerGroup(groups[i].owner) = 0
        /\ Len(groups[j].owner) = 3 /\ OwnerGroup(groups[j].owner) = j
        /\ \A t \in PmTypes : ~groups[j].mpsegrp[t].exists
        /\ Len(groups[k].owner) = 2 /\ OwnerGroup(groups[k].owner) = k

\* The rule is builtin, is enabled nowhere, or has no suitable fast pattern.
BuilderPrecondition(otn) ==
    \/ builtin(otn)
    \/ ~enabled_somewhere(otn)
    \/ get_fp_content(otn, ~is_regex_capable(search_api)).pmv = << >>

\* C25: building a port group or a service group over rules that are
\* builtin, disabled or without a suitable fast pattern records no parse
\* error; no such rule reaches an MPSE.
C25_PreconditionRulesNoError ==
    \A id \in GroupIds :
        (\A k \in 1 .. Len(groups[id].walked) :
            BuilderPrecondition(groups[id].walked[k]))
        => /\ groups[id].errors = 0
           /\ \A t \in PmTypes : ~groups[id].mpsegrp_added[t].exists

\* No create_normal_mpse and no create_offload_mpse call has failed.
CreationsSucceeded ==
    \A i \in 1 .. Len(parse_errors) : "matcher" \notin DOMAIN parse_errors[i]

Queued == { s_tbd[i] : i \in 1 .. Len(s_tbd) }

\* The MPSEs the groups held when fpFinishPortGroup was called.
Created ==
    { << id, t, MPSE_TYPE_NORMAL >> : id \in GroupIds, t \in PmTypes }
    \cup { << id, t, MPSE_TYPE_OFFLOAD >> : id \in GroupIds, t \in PmTypes }

CreatedMpse(q) ==
    IF q[3] = MPSE_TYPE_NORMAL THEN groups[q[1]].mpsegrp_added[q[2]].normal_mpse
    ELSE groups[q[1]].mpsegrp_added[q[2]].offload_mpse

CompileErrors ==
    { i \in 1 .. Len(parse_errors) : "failed_to_compile" \in DOMAIN parse_errors[i] }

\* C26: when no MPSE creation has failed, from the point of compilation on
\* mpse_count + offload_mpse_count is the number of MPSEs fpFinishPortGroup
\* queued over all port and service groups, every MPSE created has a
\* pattern and is queued once; and after compile_mpses returned, a parse
\* error for the compilation is recorded exactly if the compiled count
\* differs from mpse_count + offload_mpse_count.
C26_CountsMatchQueue ==
    /\ (pc.phase \in { "compile", "compile_mpses", "done" } /\ CreationsSucceeded)
        => /\ mpse_count + offload_mpse_count = Len(s_tbd)
           /\ Cardinality(Queued) = Len(s_tbd)
           /\ \A q \in Created :
                 CreatedMpse(q).exists
                 => get_pattern_count(CreatedMpse(q)) > 0 /\ q \in Queued
           /\ \A q \in Queued : CreatedMpse(q).exists
    /\ fixup_done
        => /\ (compiled # mpse_count + offload_mpse_count) <=> (CompileErrors # {})
           /\ \A i \in CompileErrors :
                 parse_errors[i] =
                   CompileErrorMessage(mpse_count + offload_mpse_count - compiled)

\* Normal and offload MPSEs were created without a failure and queued, one
\* of them failed to compile, and compile_mpses has returned.
C26_Witness ==
    /\ fixup_done
    /\ CreationsSucceeded
    /\ mpse_count > 1
    /\ offload_mpse_count > 0
    /\ compiled + 1 = Len(s_tbd)
    /\ CompileErrors # {}

ProtocolSet == { Protocols[i] : i \in 1 .. Len(Protocols) }

Range(f) == { f[i] : i \in DOMAIN f }

\* The rules a group holds: those of the patterns of its MPSEs and those of
\* its no-fast-pattern list.
GroupRules(g) ==
    UNION { { g.mpsegrp_added[t].normal_mpse.patterns[i].otn :
                i \in 1 .. Len(g.mpsegrp_added[t].normal_mpse.patterns) }
            \cup { g.mpsegrp_added[t].offload_mpse.patterns[i].otn :
                     i \in 1 .. Len(g.mpsegrp_added[t].offload_mpse.patterns) } :
            t \in PmTypes }
    \cup Range(g.nfp_head_added)

\* The ports of the rule on the given side include the port: the rule is an
\* any-port rule of the protocol, or a rule of a port object of that table
\* which holds the port.
RulePortsInclude(p, side, otn, port) ==
    \/ otn \in Range(port_tables[p].any.rule_hash)
    \/ \E i \in 1 .. Len(port_tables[p][side]) :
          /\ otn \in Range(port_tables[p][side][i].rule_hash)
          /\ port \in port_tables[p][side][i].ports

\* The entry of a rule map at a port is null or the group of a port object
\* of the table that holds the port, with a rule for the port in that group.
MapEntry(p, side, id, port) ==
    \/ id = 0
    \/ /\ id \in GroupIds
       /\ ~groups[id].freed
       /\ \E i \in 1 .. Len(port_tables[p][side]) :
             /\ port_tables[p][side][i].group = id
             /\ port \in port_tables[p][side][i].ports
       /\ \E otn \in GroupRules(groups[id]) : RulePortsInclude(p, side, otn, port)

\* C28: once the rule maps are assembled, for every protocol and every port
\* the destination entry and the source entry are null or the PortGroup of a
\* port object whose ports contain the port, a group with a rule whose
\* ports include the port; prmGeneric is the group of the any-port object.
C28_RuleMapEntries ==
    prm # << >> =>
      \A p \in ProtocolSet :
          /\ prm[p].prmGeneric = port_tables[p].any.group
          /\ \A port \in Ports :
                /\ MapEntry(p, "src", prm[p].prmSrcPort[port], port)
                /\ MapEntry(p, "dst", prm[p].prmDstPort[port], port)

\* The rule maps of a protocol hold a source group at one port and none at
\* another, a destination group, and the any-port group.
C28_Witness ==
    /\ prm # << >>
    /\ \E p \in ProtocolSet :
          /\ prm[p].prmSrcPort[1] # 0
          /\ prm[p].prmSrcPort[MaxPort] = 0
          /\ prm[p].prmDstPort[1] # 0
          /\ prm[p].prmGeneric # 0

\* What the claim lets run in parallel, from what can_build_mt was told.
ParallelAllowed ==
    /\ ~mt_query.reloading
    /\ mt_query.parallel_compiles[search_api]
    /\ offload_search_api # "none"
       => mt_query.parallel_compiles[offload_search_api]

\* fixup_tree has written the otn of a node.
FixedUp == \E n \in DOMAIN nodes : nodes[n].otn # 0

\* C29: compile_mpses is told to compile in parallel exactly if the
\* configuration is not being reloaded, the normal API compiles in parallel
\* and the offload API, if one is configured, does too, and two MPSEs are
\* compiled at once only then; fixup_trees runs only after compile_mpses
\* has returned, when every queued MPSE was taken and none is still being
\* compiled.
C29_ParallelCompileAndBarrier ==
    /\ mt_query # << >> => (build_mt <=> ParallelAllowed)
    /\ Cardinality(running) > 1 => build_mt
    /\ (fixup_done \/ FixedUp)
       => /\ pc.phase = "done"
          /\ started = Len(s_tbd)
          /\ running = {}
    /\ FixedUp => fixup_done

\* With an offload API of its own configured the compilation was parallel,
\* every queued MPSE compiled, and fixup_trees has set the rule of a node.
C29_Witness ==
    /\ fixup_done
    /\ FixedUp
    /\ build_mt
    /\ offload_search_api = "offload_api"
    /\ Len(s_tbd) > 2
    /\ compiled = Len(s_tbd)

\* The port object a port group was built for.
OwnerObject(owner) ==
    IF owner[2] = "any" THEN port_tables[owner[1]].any
    ELSE port_tables[owner[1]][owner[2]][owner[3]]

PortGroupIds == { id \in GroupIds : Len(groups[id].owner) = 3 }

\* The rules of the list that the group took, if they were offered: those
\* of a network protocol that are not builtin, are enabled, and have a fast
\* pattern.
Taken(g) ==
    \A k \in 1 .. Len(g.walked) :
        (is_network_protocol(g.walked[k]) /\ ~BuilderPrecondition(g.walked[k]))
        => g.walked[k] \in GroupRules(g)

\* C30: with split_any_any off, the group of every source and destination
\* port object is built from the object's own rules followed by all rules
\* of the any-port object of the protocol, with split_any_any on from its
\* own rules alone; either way the group of the any-port object is built
\* from the any-port rules alone and is what the any-port object of the
\* protocol gets as its group.
C30_AnyAnyRules ==
    /\ \A id \in PortGroupIds :
          /\ groups[id].walked =
                IF groups[id].owner[2] = "any" \/ split_any_any
                THEN OwnerObject(groups[id].owner).rule_hash
                ELSE OwnerObject(groups[id].owner).rule_hash
                     \o port_tables[groups[id].owner[1]].any.rule_hash
          /\ GroupRules(groups[id]) \subseteq Range(groups[id].walked)
          /\ CreationsSucceeded => Taken(groups[id])
          /\ OwnerObject(groups[id].owner).group
                = IF groups[id].freed THEN 0 ELSE id
    /\ pc.phase # "ports"
       => \A p \in ProtocolSet :
             \E id \in PortGroupIds : groups[id].owner = << p, "any", 0 >>

\* With split_any_any off a source port object's group holds a rule of its
\* own and a rule of the any-port object, and the any-port object of the
\* protocol has a group of its own.
C30_Witness ==
    /\ ~split_any_any
    /\ \E id \in PortGroupIds, any \in PortGroupIds :
          /\ groups[id].owner[2] = "src"
          /\ groups[any].owner = << groups[id].owner[1], "any", 0 >>
          /\ OwnerObject(groups[any].owner).group = any
          /\ OwnerObject(groups[id].owner).group = id
          /\ GroupRules(groups[id]) \cap Range(OwnerObject(groups[id].owner).rule_hash) # {}
          /\ GroupRules(groups[id]) \cap Range(OwnerObject(groups[any].owner).rule_hash) # {}

(***************************************************************************)
(* More properties of fpGetFinalPattern                                    *)
(***************************************************************************)

\* C39: for a literal pattern that is not negated, with fp_offset +
\* fp_length no more than pattern_size, the bytes fpGetFinalPattern gives
\* back lie inside pattern_buf: the offset of ret_pattern plus ret_bytes is
\* no more than pattern_size, also for fp_offset > 0 with fp_length = 0.
C39_FinalPatternInsideBuffer ==
    (/\ final_ret # NoFinal
     /\ final_pmd.is_literal /\ ~final_pmd.negated
     /\ final_pmd.fp_offset + final_pmd.fp_length <= final_pmd.pattern_size)
    => final_ret.pattern + final_ret.bytes <= final_pmd.pattern_size

(***************************************************************************)
(* More properties of the port group                                       *)
(***************************************************************************)

\* The step hands a rule of a network protocol that is builtin or enabled
\* nowhere to the per-rule adder.
SkippedRuleAdded ==
    /\ handed' # handed
    /\ is_network_protocol(handed'[Len(handed')])
    /\ \/ builtin(handed'[Len(handed')])
       \/ ~enabled_somewhere(handed'[Len(handed')])

\* C31: the per-rule adder called on a rule that is builtin or enabled
\* nowhere leaves the MPSEs of the group and their patterns, the
\* no-fast-pattern list, the rule counters of the group, the metadata of the
\* rules and the counters mpse_count and offload_mpse_count as they were.
C31_SkippedRuleChangesNothing ==
    [][SkippedRuleAdded =>
          /\ UNCHANGED << mpsegrp, nfp_head, nfp_rule_count, rule_count >>
          /\ UNCHANGED << otn_meta, mpse_count, offload_mpse_count >>
          /\ last_add' = [otn |-> handed'[Len(handed')], ret |-> -1]]_vars

\* The adder was called on a builtin rule for a group that holds an MPSE
\* with patterns and a no-fast-pattern rule, and on a rule enabled nowhere.
C31_Witness ==
    /\ po_group = "unset"
    /\ last_add.otn # 0
    /\ builtin(last_add.otn)
    /\ last_add.ret = -1
    /\ \E i \in 1 .. Len(handed) : ~enabled_somewhere(handed[i])
    /\ \E t \in PmTypes : Len(mpsegrp[t].normal_mpse.patterns) > 0

(***************************************************************************)
(* Properties of fixup_tree and fixup_trees                                *)
(***************************************************************************)

\* fixup_tree has been called on a node and has returned.
FixupCalled == fixup_call # NoCall /\ fixup_call.dot # 0

\* The rule of a leaf.
LeafRule(n) == nodes[n].option_data[2]

\* The leaf a chain of single children ends in, from node n down; null when
\* the chain ends in a node with two or more children.
RECURSIVE ChainLeaf(_)
ChainLeaf(n) ==
    IF nodes[n].num_children = 0 THEN n
    ELSE IF nodes[n].num_children = 1 THEN ChainLeaf(nodes[n].children[1])
    ELSE 0

\* 1 for a content option with one child, the one fixup_tree counts.
Counts(n) ==
    IF nodes[n].num_children = 1 /\ nodes[n].option_type = RULE_OPTION_TYPE_CONTENT
    THEN 1 ELSE 0

\* The contents accumulated on the way down to the node of the call, the
\* node itself included.
Accumulated == fixup_call.contents + Counts(fixup_call.dot)

\* C32 as stated: on a node with at most one child whose chain ends in a
\* leaf, fixup_tree returns the rule of that leaf and leaves node.otn alone
\* exactly when it is called unbranched with one content or more accumulated,
\* the node included; in every other case it returns null and node.otn holds
\* what it wrote.
C32_ReturnsWithOneContent ==
    FixupCalled /\ nodes[fixup_call.dot].num_children <= 1
                /\ ChainLeaf(fixup_call.dot) # 0
    => IF ~fixup_call.branched /\ Accumulated >= 1
       THEN /\ fixup_call.otn = LeafRule(ChainLeaf(fixup_call.dot))
            /\ nodes[fixup_call.dot].otn = 0
       ELSE fixup_call.otn = 0

\* What the call on the only child c of a node returns, the node having
\* accumulated acc contents: a leaf returns its rule from one content on, an
\* inner node the rule of its chain's leaf from two contents on, itself
\* included.
ChildReturns(c, acc) ==
    IF nodes[c].num_children = 0
    THEN IF acc >= 1 THEN LeafRule(c) ELSE 0
    ELSE IF nodes[c].num_children = 1 /\ acc + Counts(c) >= 2 /\ ChainLeaf(c) # 0
    THEN LeafRule(ChainLeaf(c))
    ELSE 0

\* C32, amended: a leaf returns its own rule and leaves its otn alone exactly
\* when it is called unbranched with one content or more accumulated, and
\* otherwise writes its own rule into its otn and returns null; a node with
\* one child passes up what its child returned, without writing, exactly when
\* it is called unbranched with two contents or more accumulated, itself
\* included, and otherwise writes what its child returned into its otn and
\* returns null.
C32_ReturnsOrStores ==
    FixupCalled /\ nodes[fixup_call.dot].num_children <= 1
    => LET dot == fixup_call.dot
           below == IF nodes[dot].num_children = 0 THEN LeafRule(dot)
                    ELSE ChildReturns(nodes[dot].children[1], Accumulated)
           threshold == IF nodes[dot].num_children = 0 THEN 1 ELSE 2
       IN  IF ~fixup_call.branched /\ Accumulated >= threshold
           THEN fixup_call.otn = below /\ nodes[dot].otn = 0
           ELSE fixup_call.otn = 0 /\ nodes[dot].otn = below

\* An unbranched content node with one child and nothing accumulated above
\* it has stored the rule of its chain's leaf.
C32_Witness ==
    /\ FixupCalled
    /\ nodes[fixup_call.dot].num_children = 1
    /\ ~fixup_call.branched /\ fixup_call.contents = 0 /\ Accumulated = 1
    /\ fixup_call.otn = 0
    /\ nodes[fixup_call.dot].otn # 0
    /\ nodes[fixup_call.dot].otn = LeafRule(ChainLeaf(fixup_call.dot))

\* The nodes fixup_tree was called on with branched == true and no contents:
\* every entry of the hash table after fixup_trees.
FixedTops ==
    IF fixup_call = NoCall THEN {}
    ELSE IF fixup_call.dot = 0
    THEN { detection_option_tree_hash_table[k] :
             k \in DOMAIN detection_option_tree_hash_table }
    ELSE IF fixup_call.branched /\ fixup_call.contents = 0 THEN { fixup_call.dot }
    ELSE {}

\* The nodes below them, themselves included.
FixedNodes == UNION { subtree(nodes, t) : t \in FixedTops }

\* The first nodes of the maximal single-child chains: a top, or a child of
\* a node with two or more children.
ChainHeads ==
    FixedTops \cup
    UNION { { nodes[n].children[i] : i \in 1 .. nodes[n].num_children } :
            n \in { m \in FixedNodes : nodes[m].num_children >= 2 } }

\* The nodes of the chain from n down.
RECURSIVE Chain(_)
Chain(n) ==
    IF nodes[n].num_children = 1 THEN {n} \cup Chain(nodes[n].children[1]) ELSE {n}

\* The nodes of a chain whose otn is the rule.
Holders(h, rule) == { n \in Chain(h) : nodes[n].otn = rule }

\* C33: after fixup_tree(top, true, 0), every maximal single-child chain
\* below top that ends in a leaf has exactly one node, the leaf included,
\* whose otn is the rule of the leaf, and a null otn in every other node; a
\* leaf whose parent has two or more children has its own rule as otn.
C33_OneHolderPerChain ==
    /\ \A h \in ChainHeads :
          ChainLeaf(h) # 0 =>
             /\ Cardinality(Holders(h, LeafRule(ChainLeaf(h)))) = 1
             /\ \A n \in Chain(h) \ Holders(h, LeafRule(ChainLeaf(h))) :
                   nodes[n].otn = 0
    /\ \A p \in FixedNodes :
          nodes[p].num_children >= 2 =>
             \A i \in 1 .. nodes[p].num_children :
                nodes[nodes[p].children[i]].num_children = 0 =>
                   nodes[nodes[p].children[i]].otn = LeafRule(nodes[p].children[i])

\* fixup_trees has run over a table with a node of two children or more,
\* one of them a leaf and another the head of a chain whose rule is held by
\* a node above the chain's leaf.
C33_Witness ==
    /\ fixup_call # NoCall /\ fixup_call.dot = 0
    /\ \E p \in FixedNodes :
          /\ nodes[p].num_children >= 2
          /\ \E i \in 1 .. nodes[p].num_children :
                nodes[nodes[p].children[i]].num_children = 0
          /\ \E i \in 1 .. nodes[p].num_children :
                LET h == nodes[p].children[i] IN
                   /\ ChainLeaf(h) # 0
                   /\ Holders(h, LeafRule(ChainLeaf(h))) # {}
                   /\ ChainLeaf(h) \notin Holders(h, LeafRule(ChainLeaf(h)))

(***************************************************************************)
(* More properties of the HPACK dynamic table                              *)
(***************************************************************************)

\* The tracked memory of a live table: increments, one at least, that cover
\* the entries.
TrackedMemoryCovers ==
    /\ table_memory_allocated > 0
    /\ table_memory_allocated % TABLE_MEMORY_TRACKING_INCREMENT = 0
    /\ table_memory_allocated >= rfc_table_size

\* What a step has reported with update_allocations.
Reported == allocations' - allocations

\* C34: while the table lives, table_memory_allocated is a positive multiple
\* of TABLE_MEMORY_TRACKING_INCREMENT and at least rfc_table_size; no step
\* makes it smaller, and a step that makes it larger by some increments has
\* reported just as many increments with update_allocations.
C34_TrackedMemory ==
    /\ [](~destroyed => TrackedMemoryCovers)
    /\ [][~destroyed' =>
             /\ table_memory_allocated' >= table_memory_allocated
             /\ Reported = table_memory_allocated' - table_memory_allocated
             /\ Reported % TABLE_MEMORY_TRACKING_INCREMENT = 0]_vars

\* A live table that has grown its tracked memory by two increments and has
\* since evicted down to less than one increment of entries.
C34_Witness ==
    /\ ~destroyed
    /\ table_memory_allocated >= 3 * TABLE_MEMORY_TRACKING_INCREMENT
    /\ allocations = ARRAY_CAPACITY * POINTER_SIZE + table_memory_allocated
    /\ call.evicted > 0
    /\ rfc_table_size < TABLE_MEMORY_TRACKING_INCREMENT

\* The slots whose entry a step has evicted.
EvictedSlots ==
    { i \in Slots : /\ circular_buf[i] # NULL
                    /\ \A j \in Slots : circular_buf'[j].id # circular_buf[i].id }

\* The slots of the k oldest entries.
OldestRun(k) ==
    { (start + num_entries - j + ARRAY_CAPACITY) % ARRAY_CAPACITY : j \in 1 .. k }

\* rfc_table_size after the k oldest entries have gone.
SizeWithout(k) == rfc_table_size - SumSizes(OldestRun(k))

\* The step is an update_size call, or an add_entry call that stored its
\* entry.
Pruning ==
    \/ call'.op = "update"
    \/ call'.op = "add" /\ call'.ret /\ call'.arg <= max_size

\* The size the call prunes to.
PruneTarget == IF call'.op = "update" THEN call'.arg ELSE max_size - call'.arg

\* C35: update_size(s) and an add_entry that is not oversize evict the
\* shortest run of oldest entries that brings rfc_table_size down to the
\* target (s, or max_size minus the size of the new entry): the evicted
\* entries are the k oldest, the size without them is within the target,
\* and the size without one fewer was still above it; nothing is evicted
\* when the size is within the target already.
C35_EvictionMinimal ==
    [][Pruning =>
         LET k == Cardinality(EvictedSlots) IN
            /\ EvictedSlots = OldestRun(k)
            /\ SizeWithout(k) <= PruneTarget
            /\ k > 0 => SizeWithout(k - 1) > PruneTarget
            /\ rfc_table_size <= PruneTarget => k = 0]_vars

\* update_size has evicted two entries or more and has kept one at least.
C35_Witness ==
    /\ call.op = "update"
    /\ call.evicted >= 2
    /\ num_entries >= 1
    /\ rfc_table_size <= call.arg

\* C36: an add_entry call that returns false changes no field of the table
\* and no slot of the array, evicts and deletes no entry, and reports
\* nothing to the flow's tracker.
C36_FailedAddChangesNothing ==
    [][call'.op = "add" /\ ~call'.ret =>
         /\ UNCHANGED << start, num_entries, rfc_table_size, max_size,
                         table_memory_allocated, circular_buf >>
         /\ UNCHANGED << allocations, deallocations, freed, next_id >>
         /\ call'.evicted = 0]_vars

\* add_entry has returned false for an entry larger than max_size, and the
\* full array still holds its entries.
C36_Witness ==
    /\ call.op = "add" /\ ~call.ret
    /\ call.arg > max_size
    /\ num_entries = ARRAY_CAPACITY
    /\ rfc_table_size > 0
    /\ \A i \in Slots : circular_buf[i] # NULL

\* The targets handed to prune_to_size: the offered sizes, the largest word,
\* and the size the table has without its k oldest entries, for every k,
\* with the sizes next to it; the loop takes every other target as it takes
\* one of these.
PruneTargets ==
    SizeChoices \cup { UINT_MODULUS - 1 }
        \cup { n \in UNION { { SizeWithout(k) - 1, SizeWithout(k), SizeWithout(k) + 1 } :
                              k \in 0 .. num_entries } : n >= 0 }

\* prune_to_size(n) on the table as it is: the loop has ended with the size
\* within n, without having met a null slot, after no more evictions than
\* there were entries.
PrunedWithin(n) ==
    \E r \in { prune_to_size(Table, n) } :
       /\ r.rfc_table_size <= n
       /\ r.num_entries <= num_entries
       /\ r.num_entries = Cardinality(LiveSlots(r.circular_buf))
       /\ r.num_entries < num_entries => rfc_table_size > n

\* C37: on every reachable live table and for every target n,
\* prune_to_size(n) ends after at most num_entries evictions, evicts from no
\* empty table and reads no empty slot, and leaves rfc_table_size <= n.
C37_PruneTerminates == ~destroyed => \A n \in PruneTargets : PrunedWithin(n)

\* A full table that prune_to_size(0) empties and that some other target
\* leaves with a part of its entries.
C37_Witness ==
    /\ ~destroyed
    /\ num_entries = ARRAY_CAPACITY
    /\ prune_to_size(Table, 0).num_entries = 0
    /\ \E n \in PruneTargets :
          /\ prune_to_size(Table, n).num_entries > 0
          /\ prune_to_size(Table, n).num_entries < num_entries

(***************************************************************************)
(* More properties of the detection option trees                           *)
(***************************************************************************)

\* The tree otn_create_tree builds from (ns, root) for the rules of a list,
\* from the k-th on, in the order of the list.
RECURSIVE TreeOf(_, _, _, _, _)
TreeOf(ns, root, order, k, mpse_type) ==
    IF k > Len(order) THEN [nodes |-> ns, root |-> root]
    ELSE LET r == otn_create_tree(ns, root, order[k], mpse_type)
         IN  TreeOf(r.nodes, r.root, order, k + 1, mpse_type)

\* The root-to-leaf paths of a tree: the option identities on the way down
\* and the rule of the leaf.
PathsOf(tree) ==
    { [options |-> [i \in 1 .. Len(p.inner) |-> tree.nodes[p.inner[i]].option_data[2]],
       rule |-> tree.nodes[p.leaf].option_data[2]] :
      p \in UNION { paths_from(tree.nodes, tree.root.children[i], << >>) :
                      i \in 1 .. Len(tree.root.children) } }

\* The rules of the leaves below node n, from the first child to the last.
RECURSIVE leaves_below(_, _, _)
leaves_below(ns, children, i) ==
    IF i > Len(children) THEN << >>
    ELSE LET n == children[i] IN
         (IF n = 0 THEN << >>
          ELSE IF ns[n].option_type = RULE_OPTION_TYPE_LEAF_NODE
          THEN << ns[n].option_data[2] >>
          ELSE leaves_below(ns, ns[n].children, 1))
         \o leaves_below(ns, children, i + 1)

LeavesInOrder(tree) == leaves_below(tree.nodes, tree.root.children, 1)

\* The rules of a set as a list, by rising number.
RECURSIVE Ascending(_)
Ascending(S) ==
    IF S = {} THEN << >>
    ELSE LET m == CHOOSE x \in S : \A y \in S : x <= y
         IN  << m >> \o Ascending(S \ {m})

\* The rules handed to tree t are handed once each and differ pairwise in
\* gid, sid or rev.
DistinctRules(t) ==
    \A i, j \in DOMAIN inserted[t] :
       i # j => ~SameSig(Otns[inserted[t][i]].sigInfo, Otns[inserted[t][j]].sigInfo)

\* The tree of pattern state t as built, and the tree of the same rules
\* handed over by rising number.
BuiltTree(t) == [nodes |-> nodes, root |-> roots[t]]

AscendingTree(t) ==
    TreeOf(<< >>, NoRoot,
           Ascending({ inserted[t][i] : i \in DOMAIN inserted[t] }), 1, TreeType(t))

\* C38: the tree otn_create_tree builds for rules that differ pairwise in
\* (gid, sid, rev) has, whatever the order the rules came in, the
\* root-to-leaf paths of the tree built for the same rules in the order of
\* their numbers; every order being reached, all orders give the same paths.
C38_PathsOrderIndependent ==
    \A t \in Trees \ finalized :
       DistinctRules(t) /\ inserted[t] # << >> =>
          PathsOf(BuiltTree(t)) = PathsOf(AscendingTree(t))

\* Three rules with distinct signatures have come in another order than
\* that of their numbers, and the leaves of the tree are in another order
\* than in the tree of the rising order.
C38_Witness ==
    \E t \in Trees \ finalized :
       /\ DistinctRules(t) /\ Len(inserted[t]) >= 3
       /\ LeavesInOrder(BuiltTree(t)) # LeavesInOrder(AscendingTree(t))
       /\ Cardinality(PathsOf(BuiltTree(t))) = Len(inserted[t])
       /\ \E p \in PathsOf(BuiltTree(t)) : Len(p.options) >= 2

====
